---------------------------- MODULE Spec2Model ----------------------------
(***************************************************************************)
(* Resume parsing core of server.js: text extraction (extractResumeText),  *)
(* schema normalisation (normalizeSkills, normalizeExperience,             *)
(* normalizeParsed), the AI round trip (parseAiResponseToJson,             *)
(* repairAiResponse, aiParseResume) and the parse handlers                 *)
(* (POST /api/parse-resume, POST /api/tools/extract-skills).               *)
(*                                                                         *)
(* A JavaScript string is a sequence of one-character strings.  A          *)
(* JavaScript value is a record tagged by its type in field t; the payload *)
(* field is named differently for every type, so values of different       *)
(* types are different records.                                            *)
(***************************************************************************)
EXTENDS Integers, Sequences, FiniteSets, TLC

VARIABLES
  \* module state, set once when the module is loaded
  pdfjsLib,    \* TRUE when require('pdfjs-dist/legacy/build/pdf.js') succeeded
  mammoth,     \* TRUE when require('mammoth') succeeded
  pdfParse,    \* TRUE when require('pdf-parse') succeeded
  openai,      \* TRUE when the OpenAI client was built, FALSE for null
  \* one invocation of extractResumeText
  file,        \* the argument file: Undef, or [originalname, buffer]
  maxChars,    \* the argument maxChars
  ext,         \* the constant ext
  xpc,         \* where the invocation is suspended
  xNumPages,   \* pdf.numPages
  xPage,       \* the loop variable i of the pdfjs branch
  xText,       \* the variable text of the pdfjs branch
  xBy,         \* the decoder whose text was returned, "none" for the final ''
  xOut,        \* the full text that decoder produced
  xResult,     \* what the invocation resolved to, NotRun before
  xTried,      \* the branches that ran to their end so far, in order, and how
               \* each ended: "text", "blank" or "threw"
  \* one request: a call of aiParseResume or one run of a parse handler
  kind,          \* "none", "aiParseResume", "parseResumeJson", "parseResumeFile",
                 \* "extractSkills", "heuristicParsed", "normalizeParsed"
  pc,            \* where the request is suspended
  resumeText,    \* the variable resumeText
  truncatedText, \* the constant truncatedText
  attempt,       \* 1 up to the first parse and repair, 2 after the re-ask
  aiResponse,    \* the variable aiResponse: the last primary reply's content
  parsed,        \* the variable parsed: Null or a profile
  calls,         \* the requests made to chat.completions.create, in order
  replies,       \* what each of them resolved to: Str(content) or Thrown
  res,           \* the HTTP responses sent, in order
  outcome,       \* how aiParseResume settled: NotRun, [returned], [threw]
  \* normalizeParsed as a function of its own
  nRaw,        \* the argument parsed
  nText,       \* the argument resumeText
  nOnce,       \* normalizeParsed(parsed, resumeText), or NotRun
  nTwice,      \* normalizeParsed applied to nOnce, or NotRun
  \* the heuristic builder as functions of their own
  hText,       \* the argument resumeText
  hSkills,     \* extractSkillsHeuristic(resumeText), or NotRun
  hProfile,    \* heuristicParsed(resumeText), or NotRun
  \* several calls of aiParseResume in progress at once
  conc         \* for each of them the locals of its invocation

moduleVars == <<pdfjsLib, mammoth, pdfParse, openai>>

extractVars == <<file, maxChars, ext, xpc, xNumPages, xPage, xText, xBy, xOut, xResult,
                 xTried>>

requestVars == <<kind, pc, resumeText, truncatedText, attempt, aiResponse, parsed,
                 calls, replies, res, outcome>>

normVars == <<nRaw, nText, nOnce, nTwice>>

heurVars == <<hText, hSkills, hProfile>>

concVars == <<conc>>

vars == <<moduleVars, extractVars, requestVars, normVars, heurVars, concVars>>

\* What a step of extractResumeText leaves alone.
restOfExtract == <<moduleVars, requestVars, normVars, heurVars, concVars>>

-----------------------------------------------------------------------------
(* Characters and strings                                                  *)

LowerChars == {"a","b","c","d","e","f","g","h","i","j","k","l","m",
               "n","o","p","q","r","s","t","u","v","w","x","y","z"}

UpperChars == {"A","B","C","D","E","F","G","H","I","J","K","L","M",
               "N","O","P","Q","R","S","T","U","V","W","X","Y","Z"}

LetterChars == LowerChars \cup UpperChars

DigitChars == {"0","1","2","3","4","5","6","7","8","9"}

\* What String.prototype.trim strips and the regex class \s matches.
SpaceChars == {" ", "\n", "\t", "\r"}

Min(a, b) == IF a < b THEN a ELSE b

\* s.slice(0, n) for n >= 0
Slice(s, n) == SubSeq(s, 1, Min(Len(s), n))

\* The last index of the run of characters of class C that starts at i
\* (i - 1 when s[i] is not of the class).
RECURSIVE RunEnd(_, _, _)
RunEnd(s, i, C) ==
  IF i > Len(s) \/ s[i] \notin C THEN i - 1 ELSE RunEnd(s, i + 1, C)

\* The first index of the run of characters of class C that ends at i.
RECURSIVE RunStart(_, _, _)
RunStart(s, i, C) ==
  IF i < 1 \/ s[i] \notin C THEN i + 1 ELSE RunStart(s, i - 1, C)

IsBlank(s) == RunEnd(s, 1, SpaceChars) = Len(s)

\* s.trim()
Trim(s) ==
  IF IsBlank(s) THEN <<>>
  ELSE SubSeq(s, RunEnd(s, 1, SpaceChars) + 1, RunStart(s, Len(s), SpaceChars) - 1)

\* s.split(/,|\n/): the pieces between the separators, empty pieces kept
SplitCommaNewline(s) ==
  LET seps  == {i \in 1..Len(s) : s[i] \in {",", "\n"}}
      cuts  == {0} \cup seps \cup {Len(s) + 1}
      nth(k) == CHOOSE c \in cuts : Cardinality({d \in cuts : d < c}) = k
  IN  [k \in 1..(Cardinality(seps) + 1) |-> SubSeq(s, nth(k - 1) + 1, nth(k) - 1)]

UpperSeq == <<"A","B","C","D","E","F","G","H","I","J","K","L","M",
              "N","O","P","Q","R","S","T","U","V","W","X","Y","Z">>

LowerSeq == <<"a","b","c","d","e","f","g","h","i","j","k","l","m",
              "n","o","p","q","r","s","t","u","v","w","x","y","z">>

\* s.toLowerCase()
ToLowerCase(s) ==
  [i \in 1..Len(s) |->
     IF s[i] \in UpperChars
     THEN LowerSeq[CHOOSE k \in 1..Len(UpperSeq) : UpperSeq[k] = s[i]]
     ELSE s[i]]

\* path.extname(p): from the last dot of the last path segment to the end;
\* '' when there is no dot or the segment starts with its only dot
ExtName(p) ==
  LET slashes == {i \in 1..Len(p) : p[i] = "/"}
      base    == IF slashes = {} THEN 1
                 ELSE (CHOOSE i \in slashes : \A j \in slashes : j <= i) + 1
      dots    == {i \in (base + 1)..Len(p) : p[i] = "."}
  IN  IF dots = {} THEN <<>>
      ELSE SubSeq(p, CHOOSE i \in dots : \A j \in dots : j <= i, Len(p))

DigitSeq == <<"0","1","2","3","4","5","6","7","8","9">>

\* Number.prototype.toString for a natural number
RECURSIVE Decimal(_)
Decimal(n) ==
  IF n < 10 THEN <<DigitSeq[n + 1]>>
  ELSE Decimal(n \div 10) \o <<DigitSeq[(n % 10) + 1]>>

-----------------------------------------------------------------------------
(* JavaScript values, as JSON.parse builds them                            *)

Undef   == [t |-> "undefined"]
Null    == [t |-> "null"]
Bool(b) == [t |-> "boolean", b |-> b]
Num(n)  == [t |-> "number", n |-> n]
Str(s)  == [t |-> "string", s |-> s]
Arr(a)  == [t |-> "array", a |-> a]
\* o maps the object's own keys to their values
Obj(o)  == [t |-> "object", o |-> o]

\* What a throw of the callee looks like to its caller.
Thrown == [t |-> "throw"]

\* A result that does not exist yet.
NotRun == [t |-> "notrun"]

NoKeys == [k \in {} |-> Undef]

\* ToBoolean
Truthy(v) ==
  CASE v.t = "undefined" -> FALSE
    [] v.t = "null"      -> FALSE
    [] v.t = "boolean"   -> v.b
    [] v.t = "number"    -> v.n # 0
    [] v.t = "string"    -> v.s # <<>>
    [] OTHER             -> TRUE

\* a || b
Or(a, b) == IF Truthy(a) THEN a ELSE b

\* v.k for the keys this code reads (none of them is a property of
\* Object.prototype, Array.prototype, String.prototype, Number.prototype or
\* Boolean.prototype); v is never null or undefined where the code reads it.
Get(v, k) ==
  IF v.t = "object" /\ k \in DOMAIN v.o THEN v.o[k] ELSE Undef

\* String(v) throws a TypeError when ToPrimitive finds no callable toString
\* giving a primitive: an object whose own key toString holds a JSON value
\* (never callable), or an array that joins such an object.
RECURSIVE StringThrows(_)
StringThrows(v) ==
  CASE v.t = "object" -> "toString" \in DOMAIN v.o
    [] v.t = "array"  -> \E i \in 1..Len(v.a) : StringThrows(v.a[i])
    [] OTHER          -> FALSE

RECURSIVE JoinComma(_, _)
\* String(v), where it does not throw
RECURSIVE String(_)
String(v) ==
  CASE v.t = "string"    -> v.s
    [] v.t = "number"    -> Decimal(v.n)
    [] v.t = "boolean"   -> IF v.b THEN <<"t","r","u","e">>
                                   ELSE <<"f","a","l","s","e">>
    [] v.t = "null"      -> <<"n","u","l","l">>
    [] v.t = "undefined" -> <<"u","n","d","e","f","i","n","e","d">>
    [] v.t = "array"     -> JoinComma(v.a, 1)
    [] OTHER             -> <<"[","o","b","j","e","c","t"," ",
                              "O","b","j","e","c","t","]">>

\* Array.prototype.join: null and undefined entries join as ''
JoinComma(a, i) ==
  IF i > Len(a) THEN <<>>
  ELSE (IF a[i].t \in {"null", "undefined"} THEN <<>> ELSE String(a[i]))
       \o (IF i < Len(a) THEN <<",">> ELSE <<>>)
       \o JoinComma(a, i + 1)

\* xs.filter(Boolean) over a sequence of strings
RECURSIVE DropEmpty(_)
DropEmpty(xs) ==
  IF xs = <<>> THEN <<>>
  ELSE (IF Head(xs) = <<>> THEN <<>> ELSE <<Head(xs)>>) \o DropEmpty(Tail(xs))

-----------------------------------------------------------------------------
(* The two patterns normalizeParsed searches resumeText with               *)

MinOf(S) == CHOOSE x \in S : \A y \in S : x <= y

MaxOf(S) == CHOOSE x \in S : \A y \in S : y <= x

EmailLocalChars == LetterChars \cup DigitChars \cup {".", "_", "%", "+", "-"}

EmailDomainChars == LetterChars \cup DigitChars \cup {".", "-"}

\* The dots that can end the domain of an address whose @ is at k:
\* at least one domain character before, at least two letters after.
EmailDots(s, k) ==
  {p \in (k + 2)..RunEnd(s, k + 1, EmailDomainChars) :
     /\ s[p] = "."
     /\ p + 2 <= Len(s)
     /\ s[p + 1] \in LetterChars
     /\ s[p + 2] \in LetterChars}

\* (s.match(/[A-Z0-9._%+-]+@[A-Z0-9.-]+\.[A-Z]{2,}/i) || [null])[0]
\* The leftmost match; each quantifier is greedy, so the domain runs to the
\* last dot that two letters follow and the last part takes every letter.
EmailMatch(s) ==
  LET ats == {k \in 2..Len(s) :
                /\ s[k] = "@"
                /\ s[k - 1] \in EmailLocalChars
                /\ EmailDots(s, k) # {}}
  IN  IF ats = {} THEN Null
      ELSE LET k == MinOf(ats)
               p == MaxOf(EmailDots(s, k))
           IN  Str(SubSeq(s, RunStart(s, k - 1, EmailLocalChars),
                          RunEnd(s, p + 1, LetterChars)))

PhoneMidChars == DigitChars \cup SpaceChars \cup {"-", "(", ")"}

\* The digits that can end a phone number whose first digit is at j: at
\* least 7 characters of the middle class lie between the two.
PhoneEnds(s, j) ==
  {e \in (j + 8)..RunEnd(s, j + 1, PhoneMidChars) : s[e] \in DigitChars}

\* (s.match(/(\+?\d[\d\s\-\(\)]{7,}\d)/) || [null])[0]
PhoneMatch(s) ==
  LET firsts == {j \in 1..Len(s) : s[j] \in DigitChars /\ PhoneEnds(s, j) # {}}
  IN  IF firsts = {} THEN Null
      ELSE LET j == MinOf(firsts)
               i == IF j > 1 /\ s[j - 1] = "+" THEN j - 1 ELSE j
           IN  Str(SubSeq(s, i, MaxOf(PhoneEnds(s, j))))

-----------------------------------------------------------------------------
(* Schema normalisation                                                    *)

StrEach(xs) == [i \in 1..Len(xs) |-> Str(xs[i])]

\* function normalizeSkills(raw): an array of strings, or Thrown when
\* String(s) throws for an entry
normalizeSkills(raw) ==
  IF raw.t = "array" THEN
    IF \E i \in 1..Len(raw.a) : StringThrows(raw.a[i]) THEN Thrown
    ELSE Arr(StrEach(DropEmpty([i \in 1..Len(raw.a) |-> Trim(String(raw.a[i]))])))
  ELSE IF raw.t = "string" THEN
    LET pieces == SplitCommaNewline(raw.s)
    IN  Arr(StrEach(DropEmpty([i \in 1..Len(pieces) |-> Trim(pieces[i])])))
  ELSE Arr(<<>>)

\* The argument normalizeExperience passes to normalizeSkills for one entry
Responsibilities(item) ==
  LET obj == Or(item, Obj(NoKeys))
  IN  Or(Get(obj, "responsibilities"), Or(Get(obj, "responsibility"), Arr(<<>>)))

\* function normalizeExperience(raw)
normalizeExperience(raw) ==
  IF raw.t # "array" THEN Arr(<<>>)
  ELSE IF \E i \in 1..Len(raw.a) :
            normalizeSkills(Responsibilities(raw.a[i])) = Thrown
  THEN Thrown
  ELSE Arr([i \in 1..Len(raw.a) |->
         LET obj == Or(raw.a[i], Obj(NoKeys))
         IN  Obj([title      |-> Or(Get(obj, "title"), Or(Get(obj, "role"), Str(<<>>))),
                  company    |-> Or(Get(obj, "company"),
                                    Or(Get(obj, "organization"), Str(<<>>))),
                  start_date |-> Or(Get(obj, "start_date"),
                                    Or(Get(obj, "startDate"),
                                       Or(Get(obj, "from"), Str(<<>>)))),
                  end_date   |-> Or(Get(obj, "end_date"),
                                    Or(Get(obj, "endDate"),
                                       Or(Get(obj, "to"), Str(<<>>)))),
                  responsibilities |-> normalizeSkills(Responsibilities(raw.a[i]))])])

\* The e-mail read from the top level only, contact.email forgotten.
ContactEmailTopLevelOnly(safe, contact, text) ==
  Or(Get(safe, "email"), EmailMatch(text))

\* The text searched first, the structured fields only when it has no match.
ContactEmailTextFirst(safe, contact, text) ==
  Or(EmailMatch(text), Or(Get(safe, "email"), Get(contact, "email")))

\* const email = safe.email || contact.email || (resumeText.match(...) || [null])[0]
ContactEmail(safe, contact, text) ==
  Or(Get(safe, "email"), Or(Get(contact, "email"), EmailMatch(text)))

\* const phone = safe.phone || contact.phone || (resumeText.match(...) || [null])[0]
ContactPhone(safe, contact, text) ==
  Or(Get(safe, "phone"), Or(Get(contact, "phone"), PhoneMatch(text)))

\* function normalizeParsed(parsed, resumeText), raw and text here: the profile, or Thrown when
\* one of its list coercions throws
normalizeParsed(raw, text) ==
  LET safe    == Or(raw, Obj(NoKeys))
      contact == Or(Get(safe, "contact"), Obj(NoKeys))
      email   == ContactEmail(safe, contact, text)
      phone   == ContactPhone(safe, contact, text)
      skills  == normalizeSkills(Get(safe, "skills"))
      experience     == normalizeExperience(Get(safe, "experience"))
      certifications == normalizeSkills(Get(safe, "certifications"))
      languages      == normalizeSkills(Get(safe, "languages"))
      links          == normalizeSkills(Get(safe, "links"))
  IN  IF Thrown \in {skills, experience, certifications, languages, links}
      THEN Thrown
      ELSE Obj([skills  |-> skills,
                contact |-> Obj([name     |-> Or(Get(contact, "name"),
                                                 Or(Get(safe, "name"), Null)),
                                 email    |-> Or(email, Null),
                                 phone    |-> Or(phone, Null),
                                 location |-> Or(Get(contact, "location"),
                                                 Or(Get(safe, "location"), Null))]),
                summary        |-> Or(Get(safe, "summary"), Str(<<>>)),
                experience     |-> experience,
                education      |-> IF Get(safe, "education").t = "array"
                                   THEN Get(safe, "education") ELSE Arr(<<>>),
                certifications |-> certifications,
                languages      |-> languages,
                links          |-> links])

-----------------------------------------------------------------------------
(* The heuristic builder                                                   *)

\* The separators of resumeText.split(/[\s,;\/\n]+/)
HeurSepChars == SpaceChars \cup {",", ";", "/"}

\* What w.replace(/[^A-Za-z0-9\+\#\.\-]/g, '') keeps
HeurKeepChars == LetterChars \cup DigitChars \cup {"+", "#", ".", "-"}

\* The last index of the piece that starts at i: up to the next separator.
RECURSIVE PieceEnd(_, _)
PieceEnd(s, i) ==
  IF i > Len(s) \/ s[i] \in HeurSepChars THEN i - 1 ELSE PieceEnd(s, i + 1)

\* s.split(/[\s,;\/\n]+/) from index i on: the pieces between the runs of
\* separators, an empty piece before a leading and after a trailing run.
RECURSIVE SplitSeparators(_, _)
SplitSeparators(s, i) ==
  LET e == PieceEnd(s, i)
  IN  IF e = Len(s) THEN <<SubSeq(s, i, e)>>
      ELSE <<SubSeq(s, i, e)>>
             \o SplitSeparators(s, RunEnd(s, e + 1, HeurSepChars) + 1)

StripDisallowed(w) == SelectSeq(w, LAMBDA c : c \in HeurKeepChars)

\* const candidates = split, map(replace), filter(w.length > 1 && w.length < 40)
Candidates(text) ==
  LET pieces   == SplitSeparators(text, 1)
      stripped == [k \in 1..Len(pieces) |-> StripDisallowed(pieces[k])]
  IN  SelectSeq(stripped, LAMBDA w : Len(w) > 1 /\ Len(w) < 40)

commonStop ==
  { <<"a","n","d">>, <<"o","r">>, <<"t","h","e">>, <<"a">>, <<"a","n">>,
    <<"t","o">>, <<"i","n">>, <<"o","f">>, <<"f","o","r">>, <<"o","n">>,
    <<"w","i","t","h">>, <<"a","t">>, <<"b","y">>, <<"f","r","o","m">> }

\* if (skills.length >= 50) break
HeuristicMaxSkills == 50

\* The spelling kept apart from the key compared.
HeurKeyExact(w) == w

\* const key = w.toLowerCase()
HeurKey(w) == ToLowerCase(w)

\* for (const w of candidates) { ... } from candidate i on
RECURSIVE CollectSkills(_, _, _, _)
CollectSkills(cands, i, skills, seen) ==
  IF i > Len(cands) THEN skills
  ELSE LET w   == cands[i]
           key == HeurKey(w)
       IN  IF key \in commonStop \/ key \in seen
           THEN CollectSkills(cands, i + 1, skills, seen)
           ELSE IF Len(skills) + 1 >= HeuristicMaxSkills
                THEN Append(skills, w)
                ELSE CollectSkills(cands, i + 1, Append(skills, w),
                                   seen \cup {key})

\* function extractSkillsHeuristic(resumeText = ''): a sequence of strings
extractSkillsHeuristic(text) ==
  IF text = <<>> THEN <<>>
  ELSE CollectSkills(Candidates(text), 1, <<>>, {})

HeuristicSummary ==
  <<"P","a","r","s","e","d"," ","r","e","s","u","m","e"," ","t","e","x","t",
    " ","w","i","t","h","o","u","t"," ","A","I"," ","(","h","e","u","r","i",
    "s","t","i","c"," ","f","a","l","l","b","a","c","k",")">>

\* What the builder hands on with no normalisation: the four keys it sets.
heuristicParsedRaw(text) ==
  LET skills == extractSkillsHeuristic(text)
  IN  Obj([skills     |-> Arr([k \in 1..Len(skills) |-> Str(skills[k])]),
           contact    |-> Obj(NoKeys),
           summary    |-> Str(HeuristicSummary),
           experience |-> Arr(<<>>)])

\* The builder normalising against no text.
heuristicParsedNoText(text) ==
  LET skills == extractSkillsHeuristic(text)
  IN  normalizeParsed(
        Obj([skills     |-> Arr([k \in 1..Len(skills) |-> Str(skills[k])]),
             contact    |-> Obj(NoKeys),
             summary    |-> Str(HeuristicSummary),
             experience |-> Arr(<<>>)]),
        <<>>)

\* function heuristicParsed(resumeText)
heuristicParsed(text) ==
  LET skills == extractSkillsHeuristic(text)
  IN  normalizeParsed(
        Obj([skills     |-> Arr([k \in 1..Len(skills) |-> Str(skills[k])]),
             contact    |-> Obj(NoKeys),
             summary    |-> Str(HeuristicSummary),
             experience |-> Arr(<<>>)]),
        text)

-----------------------------------------------------------------------------
(* Inputs: resume texts and raw values                                     *)

TextEmpty == <<>>

TextBlank == <<" ", "\n", " ">>

TextEmail == <<"r","e","a","c","h"," ","m","e"," ","a","t"," ","a",".","b","@","e","x","a","m","p","l","e",".","c","o","m">>

TextPhone == <<"t","e","l"," ","+","1"," ","(","5","5","5",")"," ","1","2","3","-","4","5","6","7",","," ","5"," ","p","m">>

TextPlain == <<"J","a","v","a",","," ","J","a","v","a",","," ","p","y","t","h","o","n"," ","A","N","D"," ","t","h","e"," ","S","Q","L">>

\* The document of the end-to-end scenario.
TextEndToEnd ==
  <<"J","o","h","n"," ","D","o","e","\n","S","k","i","l","l","s",":"," ","G","o",","," ","R","u","s","t","\n","j","o","h","n","@","x",".","c","o","m">>

PoisonedObject == Obj([toString |-> Num(1)])

Merge(f, g) ==
  [k \in (DOMAIN f) \cup (DOMAIN g) |-> IF k \in DOMAIN g THEN g[k] ELSE f[k]]

SkillsInputs ==
  { NoKeys,
    [skills |-> Arr(<<>>)],
    [skills |-> Arr(<<Str(<<" ","a"," ">>), Str(<<" ">>), Num(70), Null,
                      Str(<<"a">>)>>)],
    [skills |-> Str(<<"a",","," ","b","\n","\n","c"," ">>)],
    [skills |-> Num(5)],
    [skills |-> Arr(<<Arr(<<Str(<<"a">>), Str(<<" ","b">>)>>), Obj(NoKeys)>>)],
    [skills |-> Arr(<<Str(<<"a">>), PoisonedObject>>)] }

ContactInputs ==
  { NoKeys,
    [contact |-> Null],
    [contact |-> Obj([name |-> Str(<<"A","l">>), email |-> Str(<<"c","@","d",".","i","o">>)])],
    [contact |-> Obj([phone |-> Num(5551234), location |-> Str(<<>>), name |-> Num(0)])],
    [contact |-> Str(<<"x">>)] }

TopLevelInputs ==
  { NoKeys,
    [email |-> Str(<<"t","@","u",".","v","w">>), name |-> Str(<<"B","o">>)],
    [phone |-> Str(<<"1","2">>), location |-> Str(<<"N","Y">>), email |-> Str(<<>>)] }

ExperienceInputs ==
  { NoKeys,
    [experience |-> Arr(<<>>)],
    [experience |-> Arr(<<Obj([title |-> Str(<<"d","e","v">>),
                               role |-> Str(<<"q","a">>),
                               company |-> Str(<<"X">>),
                               start_date |-> Num(2020),
                               end_date |-> Null,
                               endDate |-> Str(<<"n","o","w">>),
                               responsibilities |-> Arr(<<Str(<<" ","r"," ">>), Str(<<>>)>>)])>>)],
    [experience |-> Arr(<<Obj([role |-> Str(<<"q","a">>),
                               organization |-> Str(<<"Y">>),
                               from |-> Str(<<"1">>),
                               to |-> Str(<<"2">>),
                               responsibility |-> Str(<<"x",","," ","y">>)]),
                          Null, Str(<<"j","o","b">>)>>)],
    [experience |-> Str(<<"d","e","v">>)],
    [experience |-> Arr(<<Obj([title |-> Str(<<"d","e","v">>),
                               responsibilities |-> Arr(<<PoisonedObject>>)])>>)] }

OtherInputs ==
  { NoKeys,
    [summary |-> Str(<<"s">>),
     education |-> Arr(<<Obj([degree |-> Str(<<"B","S">>)]), Str(<<"M","S">>)>>),
     certifications |-> Arr(<<Str(<<"c">>)>>),
     languages |-> Str(<<"e","n",",","f","r">>),
     links |-> Arr(<<>>)],
    [summary |-> Num(0), education |-> Str(<<"B","S">>),
     links |-> Arr(<<PoisonedObject>>)],
    [summary |-> Obj(NoKeys), education |-> Null, languages |-> Bool(TRUE)] }

RawObjects ==
  { Obj(Merge(Merge(Merge(Merge(s, c), p), e), o)) :
      s \in SkillsInputs, c \in ContactInputs, p \in TopLevelInputs,
      e \in ExperienceInputs, o \in OtherInputs }

RawScalars ==
  { Undef, Null, Bool(FALSE), Bool(TRUE), Num(0), Num(7), Str(<<>>),
    Str(<<"h","i">>), Arr(<<>>), Arr(<<Str(<<"x">>)>>) }

RawValues == RawObjects \cup RawScalars

\* An @ that starts no address, then two addresses.
TextTwoEmails == <<"a","@","b",","," ","c","@","d",".","i","o"," ","e","@","f",".","g","h">>

\* Eight digits in a row.
TextEightDigits == <<"c","a","l","l"," ","1","2","3","4","5","6","7","8">>

\* Two digits with seven separators between them.
TextTwoDigits == <<"r","o","o","m"," ","4"," ","-"," ","(","2",")"," ","-","7"," ","p","m">>

NormTexts ==
  {TextEmpty, TextBlank, TextEmail, TextPhone, TextPlain, TextTwoEmails,
   TextEightDigits, TextTwoDigits}

-----------------------------------------------------------------------------
(* extractResumeText(file, maxChars = 60000)                               *)

DefaultMaxChars == 60000

\* The largest pdf.numPages the model lets a decoded PDF have.
MaxPages == 2

TextShort == <<" ","G","o"," ","d","e","v","\n">>

\* A text longer than the default cap.
TextOverCap == [i \in 1..(DefaultMaxChars + 1) |-> IF i = 1 THEN "a" ELSE "!"]

\* What pdf-parse (parsed.text), mammoth (result.value) and the raw buffer
\* (file.buffer.toString('utf-8')) can hold.
DecoderTexts == {<<>>, TextBlank, TextShort, TextOverCap}

\* What one page can hold: content.items.map((item) => item.str)
PageItems == {<<>>, <<<<" ">>>>, <<<<"G","o">>, <<"d","e","v">>>>}

\* xs.join(' ')
RECURSIVE JoinSpace(_)
JoinSpace(xs) ==
  IF xs = <<>> THEN <<>>
  ELSE IF Len(xs) = 1 THEN Head(xs)
  ELSE Head(xs) \o <<" ">> \o JoinSpace(Tail(xs))

NamePdf == <<"c","v",".","P","D","F">>

NameDocx == <<"c","v",".","d","o","c","x">>

NameDoc == <<"o","l","d",".","D","o","c">>

NameTxt == <<"c","v",".","t","x","t">>

NameBare == <<"r","e","s","u","m","e">>

FileNames == {NamePdf, NameDocx, NameDoc, NameTxt, NameBare}

\* An uploaded file as multer's memory storage hands it over; buffer holds
\* the text the bytes decode to as UTF-8, or Undef when there is no buffer.
Files ==
  [originalname : {Str(x) : x \in FileNames} \cup {Undef}, buffer : {Str(x) : x \in DecoderTexts} \cup {Undef}]

ExtPdf == <<".","p","d","f">>

ExtDocx == <<".","d","o","c","x">>

ExtDoc == <<".","d","o","c">>

\* const ext = (path.extname(file?.originalname || '') || '').toLowerCase()
ExtOf(f) ==
  IF f = Undef \/ f.originalname = Undef THEN <<>>
  ELSE ToLowerCase(ExtName(f.originalname.s))

\* The guards of the four branches, in the order of the code.
Chain == <<"pdfjs", "pdf-parse", "mammoth", "utf8">>

Applies(stage, e) ==
  CASE stage = "pdfjs"     -> e = ExtPdf /\ pdfjsLib
    [] stage = "pdf-parse" -> e = ExtPdf /\ pdfParse
    [] stage = "mammoth"   -> e \in {ExtDocx, ExtDoc} /\ mammoth
    [] OTHER               -> TRUE

\* The first branch from the k-th on whose guard holds.
FirstStage(k, e) ==
  Chain[CHOOSE i \in k..Len(Chain) :
          Applies(Chain[i], e) /\ \A j \in k..(i - 1) : ~Applies(Chain[j], e)]

HasBuffer(f) == f # Undef /\ f.buffer # Undef

\* A branch that ran to its end, and how.
Ended(stage, how) == [stage |-> stage, how |-> how]

\* try { const text = file.buffer.toString('utf-8');
\*       if (text.trim()) return text.slice(0, maxChars) } catch (e) {...}
\* return ''
\* Reading buffer of a missing file, or toString of a missing buffer, throws
\* a TypeError inside the try.
Utf8Returns(f) == HasBuffer(f) /\ Trim(f.buffer.s) # <<>>

Utf8Result(f, m) == IF Utf8Returns(f) THEN Slice(f.buffer.s, m) ELSE <<>>

\* Control reaches the k-th branch with the constant ext = e: either the
\* invocation suspends in a decoder, or it runs the last branch and returns.
\* tried is what ran before.
EnterStage(k, f, m, e, tried) ==
  LET stage == FirstStage(k, e)
  IN  IF stage = "utf8"
      THEN /\ xpc' = "done"
           /\ xBy' = IF Utf8Returns(f) THEN "utf8" ELSE "none"
           /\ xOut' = IF Utf8Returns(f) THEN f.buffer.s ELSE <<>>
           /\ xResult' = Str(Utf8Result(f, m))
           /\ xTried' = Append(tried, Ended("utf8",
                           IF Utf8Returns(f) THEN "text"
                           ELSE IF HasBuffer(f) THEN "blank" ELSE "threw"))
      ELSE /\ xpc' = stage
           /\ xBy' = "none"
           /\ xOut' = <<>>
           /\ xResult' = NotRun
           /\ xTried' = tried

\* A decoder's text is returned: return text.slice(0, maxChars)
ReturnCapped(stage, text) ==
  /\ xpc' = "done"
  /\ xBy' = stage
  /\ xOut' = text
  /\ xResult' = Str(Slice(text, maxChars))
  /\ xTried' = Append(xTried, Ended(stage, "text"))

\* The call extractResumeText(f, m), up to its first await.
BeginExtract(f, m) ==
  /\ file' = f
  /\ maxChars' = m
  /\ ext' = ExtOf(f)
  /\ xNumPages' = 0
  /\ xPage' = 0
  /\ xText' = <<>>
  /\ EnterStage(1, f, m, ExtOf(f), <<>>)

\* await loadingTask.promise resolves to a document of n pages; a document
\* without pages leaves text '' and the branch falls through.
PdfjsDocumentLoads(n) ==
  /\ xpc = "pdfjs"
  /\ HasBuffer(file)
  /\ xNumPages' = n
  /\ xText' = <<>>
  /\ IF n >= 1
     THEN /\ xpc' = "pdfjs-page"
          /\ xPage' = 1
          /\ UNCHANGED <<xBy, xOut, xResult, xTried>>
     ELSE /\ xPage' = 1
          /\ EnterStage(2, file, maxChars, ext, Append(xTried, Ended("pdfjs", "blank")))
  /\ UNCHANGED <<file, maxChars, ext>>
  /\ UNCHANGED restOfExtract

\* getDocument throws or its promise rejects: catch (e), next branch.
PdfjsDocumentThrows ==
  /\ xpc = "pdfjs"
  /\ EnterStage(2, file, maxChars, ext, Append(xTried, Ended("pdfjs", "threw")))
  /\ UNCHANGED <<file, maxChars, ext, xNumPages, xPage, xText>>
  /\ UNCHANGED restOfExtract

\* await pdf.getPage(i) resolves
PdfjsPageLoads ==
  /\ xpc = "pdfjs-page"
  /\ xpc' = "pdfjs-content"
  /\ UNCHANGED <<file, maxChars, ext, xNumPages, xPage, xText, xBy, xOut, xResult,
                 xTried>>
  /\ UNCHANGED restOfExtract

\* await page.getTextContent() resolves: the page's text is appended, and
\* after the last page the text is returned when it is not blank.
PdfjsContentLoads(items) ==
  LET text == xText \o JoinSpace(items) \o <<"\n">>
  IN  /\ xpc = "pdfjs-content"
      /\ xText' = text
      /\ xPage' = xPage + 1
      /\ IF xPage + 1 <= xNumPages
         THEN /\ xpc' = "pdfjs-page"
              /\ UNCHANGED <<xBy, xOut, xResult, xTried>>
         ELSE IF Trim(text) # <<>>
         THEN ReturnCapped("pdfjs", text)
         ELSE EnterStage(2, file, maxChars, ext, Append(xTried, Ended("pdfjs", "blank")))
      /\ UNCHANGED <<file, maxChars, ext, xNumPages>>
      /\ UNCHANGED restOfExtract

\* getPage or getTextContent rejects: catch (e), next branch.
PdfjsPageThrows ==
  /\ xpc \in {"pdfjs-page", "pdfjs-content"}
  /\ EnterStage(2, file, maxChars, ext, Append(xTried, Ended("pdfjs", "threw")))
  /\ UNCHANGED <<file, maxChars, ext, xNumPages, xPage, xText>>
  /\ UNCHANGED restOfExtract

\* await pdfParse(file.buffer) resolves to parsed, with parsed.text = text
\* (Undef when the field is missing)
PdfParseResolves(text) ==
  /\ xpc = "pdf-parse"
  /\ HasBuffer(file)
  /\ IF Truthy(text) /\ Trim(text.s) # <<>>
     THEN ReturnCapped("pdf-parse", text.s)
     ELSE EnterStage(3, file, maxChars, ext, Append(xTried, Ended("pdf-parse", "blank")))
  /\ UNCHANGED <<file, maxChars, ext, xNumPages, xPage, xText>>
  /\ UNCHANGED restOfExtract

\* The rejection of pdfParse let through: no catch around the call.
PdfParseThrowsUncaught ==
  /\ xpc = "pdf-parse"
  /\ xpc' = "done"
  /\ xResult' = Thrown
  /\ UNCHANGED <<file, maxChars, ext, xNumPages, xPage, xText, xBy, xOut, xTried>>
  /\ UNCHANGED restOfExtract

\* pdfParse throws or its promise rejects: catch (e), next branch.
PdfParseThrows ==
  /\ xpc = "pdf-parse"
  /\ EnterStage(3, file, maxChars, ext, Append(xTried, Ended("pdf-parse", "threw")))
  /\ UNCHANGED <<file, maxChars, ext, xNumPages, xPage, xText>>
  /\ UNCHANGED restOfExtract

\* await mammoth.extractRawText({ buffer }) resolves to result, with
\* result.value = value: if (result.value && result.value.trim()) return result.value
MammothResolves(value) ==
  /\ xpc = "mammoth"
  /\ HasBuffer(file)
  /\ IF Truthy(value) /\ Trim(value.s) # <<>>
     THEN /\ xpc' = "done"
          /\ xBy' = "mammoth"
          /\ xOut' = value.s
          /\ xResult' = Str(value.s)
          /\ xTried' = Append(xTried, Ended("mammoth", "text"))
     ELSE EnterStage(4, file, maxChars, ext, Append(xTried, Ended("mammoth", "blank")))
  /\ UNCHANGED <<file, maxChars, ext, xNumPages, xPage, xText>>
  /\ UNCHANGED restOfExtract

\* The rejection of mammoth ending the invocation with the empty string.
MammothThrowsAborts ==
  /\ xpc = "mammoth"
  /\ xpc' = "done"
  /\ xBy' = "none"
  /\ xOut' = <<>>
  /\ xResult' = Str(<<>>)
  /\ xTried' = Append(xTried, Ended("mammoth", "threw"))
  /\ UNCHANGED <<file, maxChars, ext, xNumPages, xPage, xText>>
  /\ UNCHANGED restOfExtract

\* extractRawText throws or its promise rejects: catch (e), next branch.
MammothThrows ==
  /\ xpc = "mammoth"
  /\ EnterStage(4, file, maxChars, ext, Append(xTried, Ended("mammoth", "threw")))
  /\ UNCHANGED <<file, maxChars, ext, xNumPages, xPage, xText>>
  /\ UNCHANGED restOfExtract

\* What a decoder can resolve its text field to.
DecoderValues == {Str(x) : x \in DecoderTexts} \cup {Undef}

-----------------------------------------------------------------------------
(* The AI round trip                                                       *)

AiMaxChars == 15000

PreviewMaxChars == 500

\* A text longer than the AI cap, whose only e-mail address lies past it.
TextLongAI ==
  [i \in 1..(AiMaxChars + 6) |->
     IF i = 1 THEN "a"
     ELSE IF i > AiMaxChars THEN <<"a","@","b",".","c","o">>[i - AiMaxChars]
     ELSE "!"]

\* The cap of extractResumeText used in place of the AI cap.
TruncateAtExtractCap(text) == Slice(text, DefaultMaxChars)

\* const truncatedText = resumeText.slice(0, 15000)
Truncate(text) == Slice(text, AiMaxChars)

\* The texts aiParseResume and the JSON path are called with.
AiTexts == {TextEmail, TextPlain, TextLongAI}

\* Reply contents: completion.choices[0]?.message?.content || ''
ReplyNoContent == <<>>

ReplyProse == <<"S","u","r","e",","," ","h","e","r","e"," ","i","t"," ","i","s">>

ReplyLongProse == [i \in 1..(PreviewMaxChars + 1) |-> "x"]

ReplyEmptyObject == <<"{","}">>

ReplySkills == <<"{","\"","s","k","i","l","l","s","\"",":","[","\"","G","o","\"","]","}">>

ReplyPoisoned == <<"{","\"","l","i","n","k","s","\"",":","[","{","\"","t","o","S","t","r","i","n","g","\"",":","1","}","]","}">>

ReplyContents ==
  {ReplyNoContent, ReplyProse, ReplyLongProse, ReplyEmptyObject, ReplySkills,
   ReplyPoisoned}

\* JSON.parse(content) for the contents above; Thrown is its SyntaxError.
JSONparse(content) ==
  CASE content = ReplyEmptyObject -> Obj(NoKeys)
    [] content = ReplySkills      -> Obj([skills |-> Arr(<<Str(<<"G","o">>)>>)])
    [] content = ReplyPoisoned    -> Obj([links |-> Arr(<<PoisonedObject>>)])
    [] OTHER                      -> Thrown

\* async function parseAiResponseToJson(aiResponse, resumeText): the try
\* block holds JSON.parse and normalizeParsed; whatever either throws is
\* caught and null is returned.
parseAiResponseToJson(content, text) ==
  LET value == JSONparse(content)
      profile == normalizeParsed(value, text)
  IN  IF value = Thrown \/ profile = Thrown THEN Null ELSE profile

\* repairAiResponse after its await: reply is Str(content) or Thrown.
\* if (repaired) { JSON.parse; return normalizeParsed } ... catch ... return null
repairAiResponse(reply, text) ==
  IF reply = Thrown \/ ~Truthy(reply) THEN Null
  ELSE parseAiResponseToJson(reply.s, text)

\* A re-ask only when nothing parsed.
needsRetryUnparsedOnly(p) == p = Null

\* A re-ask whenever the profile has no skill, whatever else it holds.
needsRetryWithoutSkills(p) ==
  \/ p = Null
  \/ \A i \in 1..Len(p.o.skills.a) : Trim(p.o.skills.a[i].s) = <<>>

\* const needsRetry = !parsed || (no skill that is not blank, no experience,
\* no contact name, e-mail or phone)
needsRetry(p) ==
  \/ p = Null
  \/ /\ \A i \in 1..Len(p.o.skills.a) : Trim(p.o.skills.a[i].s) = <<>>
     /\ Len(p.o.experience.a) = 0
     /\ ~Truthy(p.o.contact.o.name)
     /\ ~Truthy(p.o.contact.o.email)
     /\ ~Truthy(p.o.contact.o.phone)

\* The request strictCall(messages) sends; temperature in tenths.
StrictCall(n, system, text) ==
  [call |-> "primary", attempt |-> n, model |-> "gpt-3.5-turbo-1106",
   json_object |-> TRUE, temperature |-> 1, system |-> system,
   user |-> [says |-> "Parse this resume text", text |-> text]]

\* The request a parse handler sends itself.
HandlerCall(text) ==
  [call |-> "primary", attempt |-> 1, model |-> "gpt-3.5-turbo-1106",
   json_object |-> TRUE, temperature |-> 2, system |-> "handler",
   user |-> [says |-> "Parse this resume text", text |-> text]]

\* A repair request carrying the resume text instead of the reply.
RepairCallResumeText(n, content) ==
  [call |-> "repair", attempt |-> n, model |-> "gpt-3.5-turbo",
   json_object |-> FALSE, temperature |-> 0, system |-> "reformatter",
   user |-> [says |-> "Fix this to valid JSON only", text |-> truncatedText]]

\* The request repairAiResponse sends.
RepairCall(n, content) ==
  [call |-> "repair", attempt |-> n, model |-> "gpt-3.5-turbo",
   json_object |-> FALSE, temperature |-> 0, system |-> "reformatter",
   user |-> [says |-> "Fix this to valid JSON only", text |-> content]]

\* The text each entry point hands to parseAiResponseToJson and
\* repairAiResponse: the JSON path and extract-skills pass resumeText.
NormalizedAgainst ==
  IF kind \in {"parseResumeJson", "extractSkills"} THEN resumeText ELSE truncatedText

Respond(status, body) == res' = Append(res, [status |-> status, body |-> body])

AiParseFailed == [message |-> "AI parse failed"]

\* What a rejected chat.completions.create throws.
ApiError == [message |-> "api error"]

\* The re-ask made whenever the profile is inadequate, whatever the attempt.
ConcludeRetryAgain(p) ==
  IF kind = "aiParseResume" THEN
    IF needsRetry(p) THEN
      /\ pc' = "primary"
      /\ attempt' = attempt + 1
      /\ parsed' = p
      /\ calls' = Append(calls, StrictCall(attempt + 1, "retry", truncatedText))
      /\ UNCHANGED <<res, outcome>>
    ELSE
      /\ pc' = "done"
      /\ parsed' = p
      /\ outcome' = IF p = Null THEN [threw |-> AiParseFailed] ELSE [returned |-> p]
      /\ UNCHANGED <<attempt, calls, res>>
  ELSE
    /\ pc' = "done"
    /\ parsed' = p
    /\ IF p = Null
       THEN Respond(500, [error |-> "AI parse failed",
                          message |-> "Unable to parse AI response into structured JSON",
                          ai_response_preview |-> Slice(aiResponse, PreviewMaxChars)])
       ELSE Respond(200, [parsed |-> p])
    /\ UNCHANGED <<attempt, calls, outcome>>

\* The re-ask of an inadequate first profile made by the handlers as well.
ConcludeHandlersRetry(p) ==
  IF attempt = 1 /\ needsRetry(p) THEN
    /\ pc' = "primary"
    /\ attempt' = 2
    /\ parsed' = p
    /\ calls' = Append(calls, StrictCall(2, "retry", truncatedText))
    /\ UNCHANGED <<res, outcome>>
  ELSE IF kind = "aiParseResume" THEN
    /\ pc' = "done"
    /\ parsed' = p
    /\ outcome' = IF p = Null THEN [threw |-> AiParseFailed] ELSE [returned |-> p]
    /\ UNCHANGED <<attempt, calls, res>>
  ELSE
    /\ pc' = "done"
    /\ parsed' = p
    /\ IF p = Null
       THEN Respond(500, [error |-> "AI parse failed",
                          message |-> "Unable to parse AI response into structured JSON",
                          ai_response_preview |-> Slice(aiResponse, PreviewMaxChars)])
       ELSE Respond(200, [parsed |-> p])
    /\ UNCHANGED <<attempt, calls, outcome>>

\* The code after parsed is settled for the current attempt: the re-ask of
\* aiParseResume, its return or throw, or the handler's response.
Conclude(p) ==
  IF kind = "aiParseResume" THEN
    IF attempt = 1 /\ needsRetry(p) THEN
      /\ pc' = "primary"
      /\ attempt' = 2
      /\ parsed' = p
      /\ calls' = Append(calls, StrictCall(2, "retry", truncatedText))
      /\ UNCHANGED <<res, outcome>>
    ELSE
      /\ pc' = "done"
      /\ parsed' = p
      /\ outcome' = IF p = Null THEN [threw |-> AiParseFailed] ELSE [returned |-> p]
      /\ UNCHANGED <<attempt, calls, res>>
  ELSE
    /\ pc' = "done"
    /\ parsed' = p
    /\ IF p = Null
       THEN Respond(500, [error |-> "AI parse failed",
                          message |-> "Unable to parse AI response into structured JSON",
                          ai_response_preview |-> Slice(aiResponse, PreviewMaxChars)])
       ELSE Respond(200, [parsed |-> p])
    /\ UNCHANGED <<attempt, calls, outcome>>

\* aiParseResume starting its two primary requests together.
AiParseResumeCalledBoth(text) ==
  /\ pc = "idle"
  /\ openai
  /\ kind' = "aiParseResume"
  /\ pc' = "primary"
  /\ resumeText' = text
  /\ truncatedText' = Truncate(text)
  /\ attempt' = 1
  /\ calls' = <<StrictCall(1, "base", Truncate(text)),
                StrictCall(2, "retry", Truncate(text))>>
  /\ UNCHANGED <<aiResponse, parsed, replies, res, outcome>>
  /\ UNCHANGED <<moduleVars, extractVars, normVars, heurVars, concVars>>

\* aiParseResume(openaiClient, resumeText) is called, with the module's client
AiParseResumeCalled(text) ==
  /\ pc = "idle"
  /\ openai
  /\ kind' = "aiParseResume"
  /\ pc' = "primary"
  /\ resumeText' = text
  /\ truncatedText' = Truncate(text)
  /\ attempt' = 1
  /\ calls' = <<StrictCall(1, "base", Truncate(text))>>
  /\ UNCHANGED <<aiResponse, parsed, replies, res, outcome>>
  /\ UNCHANGED <<moduleVars, extractVars, normVars, heurVars, concVars>>

\* A primary completion resolves with this content
PrimaryResolves(content) ==
  /\ pc = "primary"
  /\ replies' = Append(replies, Str(content))
  /\ aiResponse' = content
  /\ LET p == parseAiResponseToJson(content, NormalizedAgainst)
     IN  IF p = Null
         THEN /\ pc' = "repair"
              /\ parsed' = Null
              /\ calls' = Append(calls, RepairCall(attempt, content))
              /\ UNCHANGED <<attempt, res, outcome>>
         ELSE Conclude(p)
  /\ UNCHANGED <<kind, resumeText, truncatedText>>
  /\ UNCHANGED <<moduleVars, extractVars, normVars, heurVars, concVars>>

\* A primary completion rejects: aiParseResume lets the error through, a
\* handler's catch (aiError) answers 500
PrimaryThrows ==
  /\ pc = "primary"
  /\ replies' = Append(replies, Thrown)
  /\ pc' = "done"
  /\ IF kind = "aiParseResume"
     THEN /\ outcome' = [threw |-> ApiError]
          /\ UNCHANGED res
     ELSE /\ Respond(500, [error |-> "AI parsing failed", message |-> ApiError.message])
          /\ UNCHANGED outcome
  /\ UNCHANGED <<kind, resumeText, truncatedText, attempt, aiResponse, parsed, calls>>
  /\ UNCHANGED <<moduleVars, extractVars, normVars, heurVars, concVars>>

\* The repair completion resolves with this content
RepairResolves(content) ==
  /\ pc = "repair"
  /\ replies' = Append(replies, Str(content))
  /\ Conclude(repairAiResponse(Str(content), NormalizedAgainst))
  /\ UNCHANGED <<kind, resumeText, truncatedText, aiResponse>>
  /\ UNCHANGED <<moduleVars, extractVars, normVars, heurVars, concVars>>

\* The rejection of the repair completion let through to the caller.
RepairThrowsPropagates ==
  /\ pc = "repair"
  /\ replies' = Append(replies, Thrown)
  /\ pc' = "done"
  /\ IF kind = "aiParseResume"
     THEN /\ outcome' = [threw |-> ApiError]
          /\ UNCHANGED res
     ELSE /\ Respond(500, [error |-> "AI parsing failed", message |-> ApiError.message])
          /\ UNCHANGED outcome
  /\ UNCHANGED <<kind, resumeText, truncatedText, attempt, aiResponse, parsed, calls>>
  /\ UNCHANGED <<moduleVars, extractVars, normVars, heurVars, concVars>>

\* The repair completion rejects: caught inside repairAiResponse
RepairThrows ==
  /\ pc = "repair"
  /\ replies' = Append(replies, Thrown)
  /\ Conclude(repairAiResponse(Thrown, NormalizedAgainst))
  /\ UNCHANGED <<kind, resumeText, truncatedText, aiResponse>>
  /\ UNCHANGED <<moduleVars, extractVars, normVars, heurVars, concVars>>

-----------------------------------------------------------------------------
(* The parse handlers                                                      *)

AiNotConfigured ==
  [error |-> "AI not configured",
   message |-> "Set AI_SERVICE_API_KEY / OPENAI_API_KEY to enable resume parsing."]

NoTextExtracted ==
  [error |-> "Could not extract text from file",
   message |-> "Uploaded file could not be parsed into text. Please upload a PDF, DOC/DOCX, or TXT with readable text."]

\* What the upload middleware can hand to its callback as err.
UploadErrors == {"LIMIT_FILE_SIZE", "LIMIT_UNEXPECTED_FILE", "Invalid file type", "other"}

UploadErrorBody(err) ==
  CASE err = "LIMIT_FILE_SIZE" ->
         [error |-> "File too large", message |-> "File size exceeds 10MB limit"]
    [] err = "Invalid file type" ->
         [error |-> "Invalid file type", message |-> err]
    [] OTHER ->
         [error |-> "File upload error", message |-> err]

\* The files an upload can leave in req.files / req.file.
UploadFiles ==
  [originalname : {Str(NamePdf), Str(NameDocx), Str(NameTxt)},
   buffer : {Str(TextBlank), Str(TextShort), Str(TextLongAI)}]

\* What a decoder can resolve its text field to while a handler runs.
UploadDecoderValues == {Undef, Str(TextBlank), Str(TextShort), Str(TextLongAI)}

\* The invocation of extractResumeText has returned and its frame is gone.
ExtractFrameDropped ==
  /\ maxChars' = DefaultMaxChars
  /\ ext' = <<>>
  /\ xpc' = "idle"
  /\ xNumPages' = 0
  /\ xPage' = 0
  /\ xText' = <<>>
  /\ xBy' = "none"
  /\ xOut' = <<>>
  /\ xResult' = NotRun
  /\ xTried' = <<>>
  /\ UNCHANGED file

\* The handler's first completion request for this text.
SendHandlerCall(text) ==
  /\ pc' = "primary"
  /\ truncatedText' = Truncate(text)
  /\ attempt' = 1
  /\ calls' = <<HandlerCall(Truncate(text))>>
  /\ UNCHANGED res

\* The handler answers and ends without a completion request.
EndWith(status, body) ==
  /\ pc' = "done"
  /\ Respond(status, body)
  /\ UNCHANGED <<truncatedText, attempt, calls>>

\* The JSON path sending its request whether or not there is a client.
ParseResumeJsonUnchecked(text) ==
  /\ pc = "idle"
  /\ kind' = "parseResumeJson"
  /\ resumeText' = text
  /\ SendHandlerCall(text)
  /\ UNCHANGED <<aiResponse, parsed, replies, outcome>>
  /\ UNCHANGED <<moduleVars, extractVars, normVars, heurVars, concVars>>

\* POST /api/parse-resume with a JSON body holding filename and text
ParseResumeJson(text) ==
  /\ pc = "idle"
  /\ kind' = "parseResumeJson"
  /\ resumeText' = text
  /\ IF ~openai THEN EndWith(503, AiNotConfigured) ELSE SendHandlerCall(text)
  /\ UNCHANGED <<aiResponse, parsed, replies, outcome>>
  /\ UNCHANGED <<moduleVars, extractVars, normVars, heurVars, concVars>>

\* POST /api/parse-resume without such a body: the upload middleware runs
ParseResumeUpload ==
  /\ pc = "idle"
  /\ kind' = "parseResumeFile"
  /\ pc' = "upload"
  /\ UNCHANGED <<resumeText, truncatedText, attempt, aiResponse, parsed, calls,
                 replies, res, outcome>>
  /\ UNCHANGED <<moduleVars, extractVars, normVars, heurVars, concVars>>

\* The callback answering 400 and rejecting the promise as well, so that the
\* handler's outer catch answers again.
UploadFailsRejects(err) ==
  /\ pc = "upload"
  /\ pc' = "done"
  /\ res' = res \o <<[status |-> 400, body |-> UploadErrorBody(err)],
                     [status |-> 400, body |-> UploadErrorBody(err)]>>
  /\ UNCHANGED <<kind, resumeText, truncatedText, attempt, aiResponse, parsed,
                 calls, replies, outcome>>
  /\ UNCHANGED <<moduleVars, extractVars, normVars, heurVars, concVars>>

\* The middleware calls back with err: the callback answers 400 and returns
\* without settling the promise the handler awaits.
UploadFails(err) ==
  /\ pc = "upload"
  /\ pc' = "hung"
  /\ Respond(400, UploadErrorBody(err))
  /\ UNCHANGED <<kind, resumeText, truncatedText, attempt, aiResponse, parsed,
                 calls, replies, outcome>>
  /\ UNCHANGED <<moduleVars, extractVars, normVars, heurVars, concVars>>

\* The middleware calls back without err, f the uploaded file or Undef:
\* resolve(), then the handler runs up to await extractResumeText(file).
UploadSucceeds(f) ==
  /\ pc = "upload"
  /\ IF f = Undef
     THEN /\ EndWith(400, [error |-> "resume file is required"])
          /\ UNCHANGED extractVars
     ELSE /\ pc' = "extracting"
          /\ BeginExtract(f, DefaultMaxChars)
          /\ UNCHANGED <<truncatedText, attempt, calls, res>>
  /\ UNCHANGED <<kind, resumeText, aiResponse, parsed, replies, outcome>>
  /\ UNCHANGED <<moduleVars, normVars, heurVars, concVars>>

\* The file path going on to the AI with whatever text was extracted.
ParseResumeExtractedUnchecked ==
  /\ pc = "extracting"
  /\ kind = "parseResumeFile"
  /\ xpc = "done"
  /\ resumeText' = xResult.s
  /\ IF ~openai THEN EndWith(503, AiNotConfigured)
     ELSE SendHandlerCall(xResult.s)
  /\ ExtractFrameDropped
  /\ UNCHANGED <<kind, aiResponse, parsed, replies, outcome>>
  /\ UNCHANGED <<moduleVars, normVars, heurVars, concVars>>

\* POST /api/parse-resume after await extractResumeText(file)
ParseResumeExtracted ==
  /\ pc = "extracting"
  /\ kind = "parseResumeFile"
  /\ xpc = "done"
  /\ resumeText' = xResult.s
  /\ IF Trim(xResult.s) = <<>> THEN EndWith(400, NoTextExtracted)
     ELSE IF ~openai THEN EndWith(503, AiNotConfigured)
     ELSE SendHandlerCall(xResult.s)
  /\ ExtractFrameDropped
  /\ UNCHANGED <<kind, aiResponse, parsed, replies, outcome>>
  /\ UNCHANGED <<moduleVars, normVars, heurVars, concVars>>

\* POST /api/tools/extract-skills after upload.single('resume'), f the
\* uploaded file or Undef
ExtractSkillsRequested(f) ==
  /\ pc = "idle"
  /\ kind' = "extractSkills"
  /\ IF f = Undef
     THEN /\ EndWith(400, [error |-> "resume file is required"])
          /\ UNCHANGED extractVars
     ELSE IF ~openai
     THEN /\ EndWith(503, AiNotConfigured)
          /\ UNCHANGED extractVars
     ELSE /\ pc' = "extracting"
          /\ BeginExtract(f, DefaultMaxChars)
          /\ UNCHANGED <<truncatedText, attempt, calls, res>>
  /\ UNCHANGED <<resumeText, aiResponse, parsed, replies, outcome>>
  /\ UNCHANGED <<moduleVars, normVars, heurVars, concVars>>

\* POST /api/tools/extract-skills after await extractResumeText(req.file)
ExtractSkillsExtracted ==
  /\ pc = "extracting"
  /\ kind = "extractSkills"
  /\ xpc = "done"
  /\ resumeText' = xResult.s
  /\ IF Trim(xResult.s) = <<>> THEN EndWith(400, NoTextExtracted)
     ELSE SendHandlerCall(xResult.s)
  /\ ExtractFrameDropped
  /\ UNCHANGED <<kind, aiResponse, parsed, replies, outcome>>
  /\ UNCHANGED <<moduleVars, normVars, heurVars, concVars>>

\* What POST /api/tools/extract-skills answers, as a function of what it is
\* given: the uploaded file f or Undef, whether the module has a client, the
\* text extractResumeText resolves to for f, and the replies rs of the
\* completion calls in order (each Str(content) or Thrown). Status and, for
\* a 200, the profile under parsed.
ExtractSkillsAnswer(f, client, text, rs) ==
  IF f = Undef THEN [status |-> 400, parsed |-> Null]
  ELSE IF ~client THEN [status |-> 503, parsed |-> Null]
  ELSE IF Trim(text) = <<>> THEN [status |-> 400, parsed |-> Null]
  ELSE IF rs[1] = Thrown THEN [status |-> 500, parsed |-> Null]
  ELSE LET first == parseAiResponseToJson(rs[1].s, text)
           p == IF first # Null THEN first ELSE repairAiResponse(rs[2], text)
       IN  IF p = Null THEN [status |-> 500, parsed |-> Null]
           ELSE [status |-> 200, parsed |-> p]

\* The texts and raw values of the direct calls of heuristicParsed and
\* normalizeParsed.
DirectTexts == {TextEmail, TextPlain, TextEndToEnd}

DirectRaws ==
  { Undef, Null, Obj(NoKeys),
    Obj([skills |-> Str(<<"a",",","b">>),
         contact |-> Obj([name |-> Str(<<"A","l">>)]),
         education |-> Arr(<<Obj([degree |-> Str(<<"B","S">>)])>>),
         extra |-> Num(1)]),
    Obj([skills |-> Arr(<<Str(<<"a">>), PoisonedObject>>)]) }

\* TypeError: Cannot convert object to primitive value
ConversionError == [message |-> "Cannot convert object to primitive value"]

\* heuristicParsed(resumeText) is called
HeuristicParsedRequested(text) ==
  /\ pc = "idle"
  /\ kind' = "heuristicParsed"
  /\ pc' = "done"
  /\ resumeText' = text
  /\ outcome' = [returned |-> heuristicParsed(text)]
  /\ UNCHANGED <<truncatedText, attempt, aiResponse, parsed, calls, replies, res>>
  /\ UNCHANGED <<moduleVars, extractVars, normVars, heurVars, concVars>>

\* normalizeParsed(parsed, resumeText) is called
NormalizeParsedRequested(raw, text) ==
  /\ pc = "idle"
  /\ kind' = "normalizeParsed"
  /\ pc' = "done"
  /\ resumeText' = text
  /\ outcome' = IF normalizeParsed(raw, text) = Thrown
                THEN [threw |-> ConversionError]
                ELSE [returned |-> normalizeParsed(raw, text)]
  /\ UNCHANGED <<truncatedText, attempt, aiResponse, parsed, calls, replies, res>>
  /\ UNCHANGED <<moduleVars, extractVars, normVars, heurVars, concVars>>

-----------------------------------------------------------------------------
(* Specifications                                                          *)

ExtractIdle ==
  /\ file = Undef
  /\ maxChars = DefaultMaxChars
  /\ ext = <<>>
  /\ xpc = "idle"
  /\ xNumPages = 0
  /\ xPage = 0
  /\ xText = <<>>
  /\ xBy = "none"
  /\ xOut = <<>>
  /\ xResult = NotRun
  /\ xTried = <<>>

RequestIdle ==
  /\ kind = "none"
  /\ pc = "idle"
  /\ resumeText = <<>>
  /\ truncatedText = <<>>
  /\ attempt = 0
  /\ aiResponse = <<>>
  /\ parsed = Null
  /\ calls = <<>>
  /\ replies = <<>>
  /\ res = <<>>
  /\ outcome = NotRun

NormIdle ==
  /\ nRaw = Undef
  /\ nText = <<>>
  /\ nOnce = NotRun
  /\ nTwice = NotRun

HeurIdle ==
  /\ hText = <<>>
  /\ hSkills = NotRun
  /\ hProfile = NotRun

\* How many calls of aiParseResume are in progress at once.
NumRequests == 2

Requests == 1..NumRequests

\* The locals of an invocation of aiParseResume that has not started.
ConcFresh ==
  [pc |-> "idle", text |-> <<>>, truncated |-> <<>>, attempt |-> 0,
   parsed |-> Null, replies |-> <<>>, outcome |-> NotRun]

ConcIdle == conc = [r \in Requests |-> ConcFresh]

\* One request against a server whose three decoders are installed, with or
\* without an AI client.
Init ==
  /\ pdfjsLib = TRUE
  /\ mammoth = TRUE
  /\ pdfParse = TRUE
  /\ openai \in BOOLEAN
  /\ ExtractIdle
  /\ RequestIdle
  /\ NormIdle
  /\ HeurIdle
  /\ ConcIdle

Next ==
  \/ \E text \in AiTexts : AiParseResumeCalled(text)
  \/ \E text \in AiTexts : ParseResumeJson(text)
  \/ ParseResumeUpload
  \/ \E err \in UploadErrors : UploadFails(err)
  \/ \E f \in UploadFiles \cup {Undef} : UploadSucceeds(f)
  \/ ParseResumeExtracted
  \/ \E f \in UploadFiles \cup {Undef} : ExtractSkillsRequested(f)
  \/ ExtractSkillsExtracted
  \/ \E n \in 0..MaxPages : PdfjsDocumentLoads(n)
  \/ PdfjsDocumentThrows
  \/ PdfjsPageLoads
  \/ \E items \in PageItems : PdfjsContentLoads(items)
  \/ PdfjsPageThrows
  \/ \E text \in UploadDecoderValues : PdfParseResolves(text)
  \/ PdfParseThrows
  \/ \E value \in UploadDecoderValues : MammothResolves(value)
  \/ MammothThrows
  \/ \E content \in ReplyContents : PrimaryResolves(content)
  \/ PrimaryThrows
  \/ \E content \in ReplyContents : RepairResolves(content)
  \/ RepairThrows
  \/ \E text \in DirectTexts : HeuristicParsedRequested(text)
  \/ \E raw \in DirectRaws, text \in DirectTexts : NormalizeParsedRequested(raw, text)

Spec == Init /\ [][Next]_vars

\* A completion request that was sent is eventually resolved or rejected by
\* the client library: the awaited promise settles.
PrimarySettles == (\E content \in ReplyContents : PrimaryResolves(content)) \/ PrimaryThrows

RepairSettles == (\E content \in ReplyContents : RepairResolves(content)) \/ RepairThrows

\* The upload middleware eventually calls back.
UploadSettles ==
  \/ \E err \in UploadErrors : UploadFails(err)
  \/ \E f \in UploadFiles \cup {Undef} : UploadSucceeds(f)

\* Each promise a decoder returned eventually resolves or rejects.
DecoderSettles ==
  \/ \E n \in 0..MaxPages : PdfjsDocumentLoads(n)
  \/ PdfjsDocumentThrows
  \/ PdfjsPageLoads
  \/ \E items \in PageItems : PdfjsContentLoads(items)
  \/ PdfjsPageThrows
  \/ \E text \in UploadDecoderValues : PdfParseResolves(text)
  \/ PdfParseThrows
  \/ \E value \in UploadDecoderValues : MammothResolves(value)
  \/ MammothThrows

\* A handler whose await extractResumeText has resolved runs on.
HandlerResumes == ParseResumeExtracted \/ ExtractSkillsExtracted

\* One request, every external call of which eventually returns or throws.
SpecLive ==
  /\ Spec
  /\ WF_vars(PrimarySettles) /\ WF_vars(RepairSettles)
  /\ WF_vars(UploadSettles) /\ WF_vars(DecoderSettles) /\ WF_vars(HandlerResumes)

\* The caps extractResumeText is called with: the default and a small one.
SmallMaxChars == 3

\* A caller invokes extractResumeText(f) or extractResumeText(f, m).
CallExtract(f, m) ==
  /\ xpc = "idle"
  /\ BeginExtract(f, m)
  /\ UNCHANGED restOfExtract

\* extractResumeText called on any file, with any of the decoders installed.
InitExtract ==
  /\ pdfjsLib \in BOOLEAN
  /\ mammoth \in BOOLEAN
  /\ pdfParse \in BOOLEAN
  /\ openai = TRUE
  /\ ExtractIdle
  /\ RequestIdle
  /\ NormIdle
  /\ HeurIdle
  /\ ConcIdle

NextExtract ==
  \/ \E f \in Files \cup {Undef}, m \in {SmallMaxChars, DefaultMaxChars} : CallExtract(f, m)
  \/ \E n \in 0..MaxPages : PdfjsDocumentLoads(n)
  \/ PdfjsDocumentThrows
  \/ PdfjsPageLoads
  \/ \E items \in PageItems : PdfjsContentLoads(items)
  \/ PdfjsPageThrows
  \/ \E text \in DecoderValues : PdfParseResolves(text)
  \/ PdfParseThrows
  \/ \E value \in DecoderValues : MammothResolves(value)
  \/ MammothThrows

SpecExtract == InitExtract /\ [][NextExtract]_vars

\* normalizeParsed run on an input, then on its own result.
InitNorm ==
  /\ pdfjsLib = TRUE
  /\ mammoth = TRUE
  /\ pdfParse = TRUE
  /\ openai = TRUE
  /\ ExtractIdle
  /\ RequestIdle
  /\ nRaw \in RawValues
  /\ nText \in NormTexts
  /\ nOnce = NotRun
  /\ nTwice = NotRun
  /\ HeurIdle
  /\ ConcIdle

NormalizeOnce ==
  /\ nOnce = NotRun
  /\ nOnce' = normalizeParsed(nRaw, nText)
  /\ UNCHANGED <<nRaw, nText, nTwice, moduleVars, extractVars, requestVars, heurVars, concVars>>

NormalizeAgain ==
  /\ nOnce \notin {NotRun, Thrown}
  /\ nTwice = NotRun
  /\ nTwice' = normalizeParsed(nOnce, nText)
  /\ UNCHANGED <<nRaw, nText, nOnce, moduleVars, extractVars, requestVars, heurVars, concVars>>

NextNorm == NormalizeOnce \/ NormalizeAgain

SpecNorm == InitNorm /\ [][NextNorm]_vars

\* The words the heuristic texts are made of: spellings that differ in case
\* only, a stop word, a word of one character, a word with characters that
\* are stripped, and words of 39 and 40 characters.
Word39 == [i \in 1..39 |-> "w"]

Word40 == [i \in 1..40 |-> "v"]

HeurWords ==
  { <<"J","a","v","a">>, <<"j","a","v","a">>, <<"A","N","D">>, <<"G","o">>,
    <<"a">>, <<"x","&","y",".">>, Word39, Word40 }

HeurSeps == { <<","," ">>, <<"/">>, <<";","\n">> }

\* The number of words of a short text.
MaxHeurWords == 3

RECURSIVE JoinWith(_, _)
JoinWith(ws, sep) ==
  IF Len(ws) = 1 THEN ws[1]
  ELSE ws[1] \o sep \o JoinWith(Tail(ws), sep)

HeurShortTexts ==
  { JoinWith(ws, sep) :
      ws \in UNION {[1..n -> HeurWords] : n \in 1..MaxHeurWords},
      sep \in HeurSeps }

\* A text of n words that differ ignoring case; every tenth is followed by
\* a stop word and by its own spelling in capitals.
RECURSIVE ManyWords(_)
ManyWords(n) ==
  IF n = 0 THEN <<>>
  ELSE ManyWords(n - 1) \o <<"s">> \o Decimal(n)
         \o (IF n % 10 = 0
             THEN <<","," ","t","h","e"," ","S">> \o Decimal(n) \o <<"\n">>
             ELSE <<"\n">>)

\* How many words past the cap the longest text has.
ExtraWords == 2

TextLedBySeparator == <<","," ","G","o"," ",";">>

HeurTexts ==
  HeurShortTexts
    \cup {ManyWords(n) : n \in (HeuristicMaxSkills - 1)..(HeuristicMaxSkills + ExtraWords)}
    \cup {TextEmpty, TextBlank, TextEmail, TextPhone, TextPlain, TextEndToEnd,
          TextLedBySeparator}

\* extractSkillsHeuristic and heuristicParsed called on a text.
InitHeur ==
  /\ pdfjsLib = TRUE
  /\ mammoth = TRUE
  /\ pdfParse = TRUE
  /\ openai = FALSE
  /\ ExtractIdle
  /\ RequestIdle
  /\ NormIdle
  /\ hText \in HeurTexts
  /\ hSkills = NotRun
  /\ hProfile = NotRun
  /\ ConcIdle

ExtractSkillsHeuristicCalled ==
  /\ hSkills = NotRun
  /\ hSkills' = LET skills == extractSkillsHeuristic(hText)
                IN  Arr([k \in 1..Len(skills) |-> Str(skills[k])])
  /\ UNCHANGED <<hText, hProfile, moduleVars, extractVars, requestVars, normVars, concVars>>

HeuristicParsedCalled ==
  /\ hProfile = NotRun
  /\ hProfile' = heuristicParsed(hText)
  /\ UNCHANGED <<hText, hSkills, moduleVars, extractVars, requestVars, normVars, concVars>>

NextHeur == ExtractSkillsHeuristicCalled \/ HeuristicParsedCalled

SpecHeur == InitHeur /\ [][NextHeur]_vars

ConcTexts == {TextPlain, TextEmail}

ConcReplies == {ReplyProse, ReplyEmptyObject}

\* One truncatedText for the module, that of the first invocation.
ConcTextShared(r) == conc[1].truncated

\* truncatedText is a const of the invocation, r's own
ConcText(r) == conc[r].truncated

\* The locals of invocation r once parsed is settled as p for the current
\* attempt: the re-ask, the return or the throw.
ConcConclude(r, q, p) ==
  IF q.attempt = 1 /\ needsRetry(p)
  THEN [q EXCEPT !.pc = "primary", !.attempt = 2, !.parsed = p]
  ELSE [q EXCEPT !.pc = "done", !.parsed = p,
                 !.outcome = IF p = Null THEN [threw |-> AiParseFailed]
                             ELSE [returned |-> p]]

\* Invocation r of aiParseResume starts, up to its first await.
ConcCalled(r, text) ==
  /\ conc[r].pc = "idle"
  /\ openai
  /\ conc' = [conc EXCEPT ![r] = [@ EXCEPT !.pc = "primary", !.text = text,
                                           !.truncated = Truncate(text),
                                           !.attempt = 1]]
  /\ UNCHANGED <<moduleVars, extractVars, requestVars, normVars, heurVars>>

\* The primary completion of invocation r resolves with this content.
ConcPrimaryResolves(r, content) ==
  /\ conc[r].pc = "primary"
  /\ LET q == [conc[r] EXCEPT !.replies = Append(@, Str(content))]
         p == parseAiResponseToJson(content, ConcText(r))
     IN  conc' = [conc EXCEPT ![r] =
                    IF p = Null THEN [q EXCEPT !.pc = "repair", !.parsed = Null]
                    ELSE ConcConclude(r, q, p)]
  /\ UNCHANGED <<moduleVars, extractVars, requestVars, normVars, heurVars>>

\* The primary completion of invocation r rejects: the error goes through.
ConcPrimaryThrows(r) ==
  /\ conc[r].pc = "primary"
  /\ conc' = [conc EXCEPT ![r] = [@ EXCEPT !.pc = "done",
                                           !.replies = Append(@, Thrown),
                                           !.outcome = [threw |-> ApiError]]]
  /\ UNCHANGED <<moduleVars, extractVars, requestVars, normVars, heurVars>>

\* The repair completion of invocation r resolves with this content.
ConcRepairResolves(r, content) ==
  /\ conc[r].pc = "repair"
  /\ LET q == [conc[r] EXCEPT !.replies = Append(@, Str(content))]
     IN  conc' = [conc EXCEPT ![r] =
                    ConcConclude(r, q, repairAiResponse(Str(content), ConcText(r)))]
  /\ UNCHANGED <<moduleVars, extractVars, requestVars, normVars, heurVars>>

\* The repair completion of invocation r rejects: caught, parsed stays null.
ConcRepairThrows(r) ==
  /\ conc[r].pc = "repair"
  /\ LET q == [conc[r] EXCEPT !.replies = Append(@, Thrown)]
     IN  conc' = [conc EXCEPT ![r] = ConcConclude(r, q, Null)]
  /\ UNCHANGED <<moduleVars, extractVars, requestVars, normVars, heurVars>>

\* One attempt of aiParseResume run on its own, its primary reply rs[i]:
\* whether the call threw, the profile or null, the index of the next reply,
\* and whether the replies ran out.
AloneAttempt(t, rs, i) ==
  IF i > Len(rs)
  THEN [threw |-> FALSE, p |-> Null, next |-> i, short |-> TRUE]
  ELSE IF rs[i] = Thrown
  THEN [threw |-> TRUE, p |-> Null, next |-> i + 1, short |-> FALSE]
  ELSE IF parseAiResponseToJson(rs[i].s, t) # Null
  THEN [threw |-> FALSE, p |-> parseAiResponseToJson(rs[i].s, t),
        next |-> i + 1, short |-> FALSE]
  ELSE IF i + 1 > Len(rs)
  THEN [threw |-> FALSE, p |-> Null, next |-> i + 1, short |-> TRUE]
  ELSE [threw |-> FALSE, p |-> repairAiResponse(rs[i + 1], t),
        next |-> i + 2, short |-> FALSE]

\* aiParseResume(client, text) run on its own against a client that answers
\* rs in order: how it settles and how many replies it took; NotRun when it
\* would wait for a reply rs does not hold.
AloneRun(text, rs) ==
  LET t    == Truncate(text)
      a1   == AloneAttempt(t, rs, 1)
      a2   == AloneAttempt(t, rs, a1.next)
      last == IF ~a1.short /\ ~a1.threw /\ needsRetry(a1.p) THEN a2 ELSE a1
  IN  [took    |-> last.next - 1,
       outcome |-> IF last.short THEN NotRun
                   ELSE IF last.threw THEN [threw |-> ApiError]
                   ELSE IF last.p = Null THEN [threw |-> AiParseFailed]
                   ELSE [returned |-> last.p]]

\* Several calls of aiParseResume against one server, steps interleaved.
InitConc ==
  /\ pdfjsLib = TRUE
  /\ mammoth = TRUE
  /\ pdfParse = TRUE
  /\ openai = TRUE
  /\ ExtractIdle
  /\ RequestIdle
  /\ NormIdle
  /\ HeurIdle
  /\ ConcIdle

NextConc ==
  \/ \E r \in Requests, text \in ConcTexts : ConcCalled(r, text)
  \/ \E r \in Requests, content \in ConcReplies : ConcPrimaryResolves(r, content)
  \/ \E r \in Requests : ConcPrimaryThrows(r)
  \/ \E r \in Requests, content \in ConcReplies : ConcRepairResolves(r, content)
  \/ \E r \in Requests : ConcRepairThrows(r)

SpecConc == InitConc /\ [][NextConc]_vars

-----------------------------------------------------------------------------
(* Properties                                                              *)

IsPrefix(a, b) == Len(a) <= Len(b) /\ SubSeq(b, 1, Len(a)) = a

Primaries == {i \in 1..Len(calls) : calls[i].call = "primary"}

Repairs(n) == {i \in 1..Len(calls) : calls[i].call = "repair" /\ calls[i].attempt = n}

Answered(i) == i <= Len(replies) /\ replies[i] # Thrown

\* C1: one invocation of aiParseResume issues at most 2 primary completion
\* calls, at most 1 repair call after each primary call (the repair of an
\* attempt directly follows that attempt's primary call), hence at most 4
\* completion calls in total.
C1_AtMostFourCalls ==
  kind = "aiParseResume" =>
    /\ Cardinality(Primaries) <= 2
    /\ \A n \in 1..2 : Cardinality(Repairs(n)) <= 1
    /\ \A i \in 1..Len(calls) :
         /\ calls[i].attempt \in 1..2
         /\ calls[i].call = "repair" =>
              /\ i > 1
              /\ calls[i - 1].call = "primary"
              /\ calls[i - 1].attempt = calls[i].attempt
    /\ Len(calls) <= 4

\* aiParseResume has ended after two primary calls and two repair calls.
C1_Witness ==
  /\ kind = "aiParseResume"
  /\ pc = "done"
  /\ Len(calls) = 4
  /\ Cardinality(Primaries) = 2

\* A profile without core data: no skill that is not blank, no experience,
\* and no contact name, e-mail or phone.
LacksCoreData(p) ==
  /\ \A i \in 1..Len(p.o.skills.a) : IsBlank(p.o.skills.a[i].s)
  /\ p.o.experience.a = <<>>
  /\ \A k \in {"name", "email", "phone"} :
       p.o.contact.o[k] \in {Null, Undef, Str(<<>>), Num(0), Bool(FALSE)}

\* The first reply of aiParseResume is valid JSON whose own skills,
\* experience and contact name, e-mail and phone are all empty: normalised
\* against no text at all, it is a profile that needs the re-ask.
FirstReplyLacksCoreData ==
  /\ kind = "aiParseResume"
  /\ Answered(1)
  /\ JSONparse(replies[1].s) # Thrown
  /\ normalizeParsed(JSONparse(replies[1].s), <<>>) # Thrown
  /\ LacksCoreData(normalizeParsed(JSONparse(replies[1].s), <<>>))

SecondRequestIssued ==
  /\ Len(calls) >= 2
  /\ calls[2] = StrictCall(2, "retry", truncatedText)

\* C2 as claimed: for every resume text, whenever the first AI response of
\* aiParseResume is valid JSON whose skills, experience and contact are all
\* empty, a second primary request with the stricter system prompt is
\* issued before aiParseResume returns.
C2_AsClaimed ==
  (FirstReplyLacksCoreData /\ pc = "done") => SecondRequestIssued

\* C2 as amended: whenever the first AI response of aiParseResume is valid
\* JSON and its profile, normalised against the truncated resume text (so
\* with the contact e-mail and phone the patterns find in that text), has no
\* skill that is not blank, no experience and no contact name, e-mail or
\* phone, the second primary request with the stricter system prompt has
\* been issued, before aiParseResume returns.
C2_RetryOnEmptyProfile ==
  ( /\ kind = "aiParseResume"
    /\ Answered(1)
    /\ parseAiResponseToJson(replies[1].s, truncatedText) # Null
    /\ LacksCoreData(parseAiResponseToJson(replies[1].s, truncatedText)) )
  => SecondRequestIssued

\* aiParseResume returned after an empty first reply and the re-ask.
C2_Witness ==
  /\ kind = "aiParseResume"
  /\ pc = "done"
  /\ "returned" \in DOMAIN outcome
  /\ replies[1] = Str(ReplyEmptyObject)
  /\ SecondRequestIssued

\* C3: in aiParseResume, once a primary response has been received, the
\* attempt has exactly one repair call when the response is not parseable
\* as JSON and none when it is; never two for one attempt.
C3_RepairIffUnparseable ==
  kind = "aiParseResume" =>
    \A i \in Primaries :
      Answered(i) =>
        Cardinality(Repairs(calls[i].attempt)) =
          IF JSONparse(replies[i].s) = Thrown THEN 1 ELSE 0

\* Reply i parsed: parseAiResponseToJson, or repairAiResponse for the reply
\* of a repair call, made a profile of it.
GaveProfile(i) ==
  /\ Answered(i)
  /\ repairAiResponse(replies[i], truncatedText) # Null

\* C4: aiParseResume fails with the AI-parse failure only when no response
\* of the round trip parsed; if any of them parsed, even to an empty
\* profile, the request ends in success.
C4_FailsOnlyIfNothingParsed ==
  (kind = "aiParseResume" /\ pc = "done" /\ "threw" \in DOMAIN outcome
     /\ outcome.threw = AiParseFailed)
  => \A i \in 1..Len(replies) : ~GaveProfile(i)

\* The error a failed AI parse surfaces: what aiParseResume throws, or the
\* body of the response a handler sends.
Surfaced ==
  IF "threw" \in DOMAIN outcome /\ outcome.threw.message = "AI parse failed"
    THEN {outcome.threw}
    ELSE {res[i].body : i \in {j \in 1..Len(res) :
            /\ "error" \in DOMAIN res[j].body
            /\ res[j].body.error = "AI parse failed"}}

\* C5: every AI-parse failure that is surfaced carries a preview of the last
\* raw AI response: its first PreviewMaxChars characters, never more.
C5_FailureCarriesPreview ==
  \A e \in Surfaced :
    /\ "ai_response_preview" \in DOMAIN e
    /\ Len(e.ai_response_preview) <= PreviewMaxChars
    /\ e.ai_response_preview = Slice(aiResponse, PreviewMaxChars)

\* C6: extractResumeText never raises: whatever the file (absent, without a
\* name, without a buffer), whichever decoders are installed and whichever
\* of them throw, it ends with a string, empty when nothing was decoded.
C6_NeverRaises ==
  /\ xResult # Thrown
  /\ xpc = "done" => /\ xResult.t = "string"
                     /\ xBy = "none" <=> xResult.s = <<>>

\* extractResumeText ended with the empty string for a PDF whose decoders
\* both threw and which has no buffer to read as text.
C6_Witness ==
  /\ xpc = "done"
  /\ xResult = Str(<<>>)
  /\ file # Undef
  /\ ext = ExtPdf
  /\ pdfParse
  /\ ~HasBuffer(file)

\* C7: what extractResumeText returns is never longer than maxChars and is
\* a prefix of the text the decoder that succeeded gave.
C7_ResultCapped ==
  (xpc = "done" /\ xResult # Thrown) =>
    /\ Len(xResult.s) <= maxChars
    /\ IsPrefix(xResult.s, xOut)

\* C8: every primary request carries the first AiMaxChars characters of the
\* resume text (all of it when it is shorter), and attempt 2 carries exactly
\* the text attempt 1 carried.
C8_PrimaryTextTruncated ==
  \A i \in Primaries :
    /\ Len(calls[i].user.text) <= AiMaxChars
    /\ calls[i].user.text = Slice(resumeText, AiMaxChars)
    /\ calls[i].user.text = calls[1].user.text

\* The second primary request of aiParseResume went out for a resume text
\* longer than AiMaxChars.
C8_Witness ==
  /\ kind = "aiParseResume"
  /\ Len(resumeText) > AiMaxChars
  /\ \E i \in Primaries : calls[i].attempt = 2

\* C9: normalizeParsed is idempotent: applied to its own output with the
\* same text it returns that output.
C9_Idempotent == (nTwice # NotRun /\ nOnce # Thrown) => nTwice = nOnce

\* normalizeParsed was applied twice to a raw value whose e-mail lies under
\* contact, and the first application moved things: the output is not the
\* input.
C9_Witness ==
  /\ nTwice # NotRun
  /\ nOnce # Thrown
  /\ nOnce # nRaw
  /\ Truthy(Get(Get(nRaw, "contact"), "email"))
  /\ Len(nOnce.o.skills.a) > 0

\* The profile with every array empty and every contact field null.
EmptyProfile ==
  Obj([skills  |-> Arr(<<>>),
       contact |-> Obj([name |-> Null, email |-> Null, phone |-> Null,
                        location |-> Null]),
       summary        |-> Str(<<>>),
       experience     |-> Arr(<<>>),
       education      |-> Arr(<<>>),
       certifications |-> Arr(<<>>),
       languages      |-> Arr(<<>>),
       links          |-> Arr(<<>>)])

\* C10: normalizeParsed is total: for every raw value and every text it
\* returns a profile and never throws, and for the raw object {} with the
\* empty text the profile has every array empty and the four contact
\* fields null.
C10_Total ==
  nOnce # NotRun =>
    /\ nOnce # Thrown
    /\ nOnce.t = "object"
    /\ (nRaw = Obj(NoKeys) /\ nText = TextEmpty) => nOnce = EmptyProfile

\* The profiles that crossed the output boundary: what a call returned and
\* what a handler answered under parsed.
BoundaryProfiles ==
  (IF "returned" \in DOMAIN outcome THEN {outcome.returned} ELSE {})
    \cup {res[i].body.parsed :
            i \in {j \in 1..Len(res) : "parsed" \in DOMAIN res[j].body}}

ProfileKeys ==
  {"skills", "contact", "summary", "experience", "education",
   "certifications", "languages", "links"}

\* C11 as claimed: every profile that crosses the output boundary has a
\* fixed set of top-level keys, all present and none undefined, and the set
\* has exactly nine keys.
C11_AsClaimed ==
  \A p \in BoundaryProfiles :
    /\ p.t = "object"
    /\ \A k \in DOMAIN p.o : p.o[k] # Undef
    /\ Cardinality(DOMAIN p.o) = 9

\* C11 as amended: every profile that crosses the output boundary (returned
\* by normalizeParsed, aiParseResume or heuristicParsed, or sent in a parse
\* handler's success response) has the same eight top-level keys (skills,
\* contact, summary, experience, education, certifications, languages,
\* links), every one present and none undefined.
C11_EightKeys ==
  \A p \in BoundaryProfiles :
    /\ p.t = "object"
    /\ DOMAIN p.o = ProfileKeys
    /\ \A k \in ProfileKeys : p.o[k] # Undef
    /\ Cardinality(DOMAIN p.o) = 8

\* heuristicParsed returned a profile with skills in it.
C11_Witness ==
  /\ kind = "heuristicParsed"
  /\ "returned" \in DOMAIN outcome
  /\ Len(outcome.returned.o.skills.a) > 0

HandlerKinds == {"parseResumeJson", "parseResumeFile", "extractSkills"}

FileHandlerKinds == {"parseResumeFile", "extractSkills"}

\* C12: when no AI client is configured and the text of the request is not
\* blank, a parse request does not end in an error: it answers with the
\* profile heuristicParsed builds from the text.
C12_HeuristicWithoutAi ==
  (~openai /\ kind \in HandlerKinds /\ pc = "done" /\ ~IsBlank(resumeText))
  => /\ Len(res) = 1
     /\ res[1].status = 200
     /\ res[1].body = [parsed |-> heuristicParsed(resumeText)]

RejectedForInput(r) ==
  /\ r.status = 400
  /\ r.body.error \in {"resume file is required", NoTextExtracted.error}

C14_BlankTextAborts ==
  kind \in FileHandlerKinds =>
    /\ (pc = "done" /\ file # Undef /\ IsBlank(resumeText)) =>
         /\ res = <<[status |-> 400, body |-> NoTextExtracted]>>
         /\ calls = <<>>
    /\ calls # <<>> => ~IsBlank(resumeText)

\* With a client configured, /api/parse-resume extracted no text from the
\* uploaded file and answered 400.
C14_Witness ==
  /\ openai
  /\ kind = "parseResumeFile"
  /\ pc = "done"
  /\ file # Undef
  /\ IsBlank(resumeText)
  /\ res = <<[status |-> 400, body |-> NoTextExtracted]>>

\* The structured e-mail of a raw value: its top-level email, else the
\* email under contact; Undef when neither holds a value that counts.
StructuredEmail(raw) ==
  LET top   == Get(raw, "email")
      under == Get(Get(raw, "contact"), "email")
  IN  IF Truthy(top) THEN top ELSE IF Truthy(under) THEN under ELSE Undef

Occurs(piece, s) ==
  \E i \in 1..(Len(s) - Len(piece) + 1) : SubSeq(s, i, i + Len(piece) - 1) = piece

\* C15: when the raw object supplies a structured e-mail, contact.email of
\* the profile is that value whatever the text holds; when it supplies none,
\* contact.email is the first match of the e-mail pattern in the text, a
\* piece of the text around an @, or null when the text has no match.
C15_EmailFallback ==
  (nOnce # NotRun /\ nOnce # Thrown) =>
    LET email == nOnce.o.contact.o.email
    IN  IF StructuredEmail(nRaw) # Undef
        THEN email = StructuredEmail(nRaw)
        ELSE /\ email = EmailMatch(nText)
             /\ email # Null =>
                  /\ email.t = "string"
                  /\ "@" \in {email.s[i] : i \in 1..Len(email.s)}
                  /\ Occurs(email.s, nText)
             /\ "@" \notin {nText[i] : i \in 1..Len(nText)} => email = Null

\* normalizeParsed took the e-mail from a text with two addresses for a raw
\* value with none: the first of the two.
C15_Witness ==
  /\ nOnce # NotRun
  /\ nOnce # Thrown
  /\ StructuredEmail(nRaw) = Undef
  /\ nText = TextTwoEmails
  /\ nOnce.o.contact.o.email = Str(<<"c","@","d",".","i","o">>)

\* What tells words apart: the spelling in lower case.
Folded(w) == ToLowerCase(w)

\* The keys of the words that are not stop words.
DistinctQualifying(words) ==
  {Folded(words[i]) : i \in 1..Len(words)} \ commonStop

\* The place of w in the words: the first word that it equals ignoring case
\* (0 when there is none).
FirstPlace(words, w) ==
  LET places == {i \in 1..Len(words) : Folded(words[i]) = Folded(w)}
  IN  IF places = {} THEN 0 ELSE MinOf(places)

\* C16: the list extractSkillsHeuristic builds holds words of the text of
\* 2 to 39 characters after stripping, each in the spelling of its first
\* occurrence and in the order of first occurrence, no two equal ignoring
\* case, none a stop word ignoring case; it has at most 50 entries, and
\* exactly 50 when the text holds 50 or more distinct qualifying words that
\* are not stop words.
C16_HeuristicSkills ==
  hSkills # NotRun =>
    LET words  == Candidates(hText)
        skills == [k \in 1..Len(hSkills.a) |-> hSkills.a[k].s]
        n      == Len(hSkills.a)
        place  == [k \in 1..n |-> FirstPlace(words, skills[k])]
        total  == Cardinality(DistinctQualifying(words))
    IN  /\ \A k \in 1..n :
             /\ Len(skills[k]) \in 2..39
             /\ \A c \in 1..Len(skills[k]) : skills[k][c] \in HeurKeepChars
             /\ Folded(skills[k]) \notin commonStop
             /\ place[k] > 0
             /\ words[place[k]] = skills[k]
        /\ \A k \in 1..(n - 1) : place[k] < place[k + 1]
        /\ Cardinality({Folded(skills[k]) : k \in 1..n}) = n
        /\ n <= HeuristicMaxSkills
        /\ total >= HeuristicMaxSkills => n = HeuristicMaxSkills
        /\ total < HeuristicMaxSkills => n = total

\* extractSkillsHeuristic stopped at 50 skills on a text with more distinct
\* qualifying words, some of them repeated in capitals.
C16_Witness ==
  /\ hSkills # NotRun
  /\ Len(hSkills.a) = HeuristicMaxSkills
  /\ Cardinality(DistinctQualifying(Candidates(hText))) > HeuristicMaxSkills
  /\ Len(Candidates(hText)) > Cardinality(DistinctQualifying(Candidates(hText)))

\* Every invocation that has settled settled as it does on its own with
\* the same text and the same replies, all of which it took.
SettledAsAlone ==
  \A r \in Requests :
    conc[r].pc = "done" =>
      /\ conc[r].outcome = AloneRun(conc[r].text, conc[r].replies).outcome
      /\ Len(conc[r].replies) = AloneRun(conc[r].text, conc[r].replies).took

Applicable == SelectSeq(Chain, LAMBDA stage : Applies(stage, ext))

\* The branch a suspended invocation waits in.
Waiting ==
  IF xpc \in {"pdfjs", "pdfjs-page", "pdfjs-content"} THEN "pdfjs" ELSE xpc

Fruitless(t) == t.how \in {"threw", "blank"}

\* C18: the decoders run in the fixed order pdfjs, pdf-parse, mammoth, raw
\* UTF-8, restricted to those applicable to the extension; a decoder runs
\* only after every earlier applicable one threw or yielded blank text; the
\* first one to yield text ends the invocation with its text; a throw never
\* ends the chain early; and the empty string is returned only when every
\* applicable decoder, raw UTF-8 included, threw or was blank.
C18_OrderedFallback ==
  xpc # "idle" =>
    LET n == Len(xTried)
    IN  /\ n <= Len(Applicable)
        /\ \A i \in 1..n : xTried[i].stage = Applicable[i]
        /\ \A i \in 1..(n - 1) : Fruitless(xTried[i])
        /\ xpc # "done" =>
             /\ \A i \in 1..n : Fruitless(xTried[i])
             /\ n < Len(Applicable)
             /\ Waiting = Applicable[n + 1]
        /\ xpc = "done" =>
             /\ n >= 1
             /\ xResult # Thrown
             /\ IF xTried[n].how = "text"
                THEN /\ xBy = xTried[n].stage
                     /\ Trim(xOut) # <<>>
                     /\ xResult # Str(<<>>)
                ELSE /\ n = Len(Applicable)
                     /\ xResult = Str(<<>>)
             /\ xResult = Str(<<>>) =>
                  /\ n = Len(Applicable)
                  /\ \A i \in 1..n : Fruitless(xTried[i])

\* A .pdf invocation with both PDF decoders installed in which pdfjs threw,
\* pdf-parse was blank and raw UTF-8 gave the text.
C18_Witness ==
  /\ xpc = "done"
  /\ xTried = <<Ended("pdfjs", "threw"), Ended("pdf-parse", "blank"),
                Ended("utf8", "text")>>
  /\ xBy = "utf8"

\* A .docx invocation in which mammoth threw and raw UTF-8 was blank too.
C18_WitnessEmpty ==
  /\ xpc = "done"
  /\ xTried = <<Ended("mammoth", "threw"), Ended("utf8", "blank")>>
  /\ xResult = Str(<<>>)


\* The completion requests sent and not yet resolved or rejected.
InFlight == Len(calls) - Len(replies)

\* A step that sends a completion request sends one, with every earlier
\* request resolved or rejected by then; a repair request follows the
\* received response of the primary request of its attempt; the primary
\* request of attempt 2 follows the answers to all requests of attempt 1.
StartsAfterEarlierSettled ==
  Len(calls') > Len(calls) =>
    LET k == Len(calls')
    IN  /\ k = Len(calls) + 1
        /\ Len(replies') = k - 1
        /\ calls'[k].call = "repair" =>
             /\ k > 1
             /\ calls'[k - 1].call = "primary"
             /\ calls'[k - 1].attempt = calls'[k].attempt
             /\ replies'[k - 1] # Thrown
        /\ (calls'[k].call = "primary" /\ calls'[k].attempt = 2) =>
             /\ calls'[1].call = "primary" /\ calls'[1].attempt = 1
             /\ \A i \in 1..(k - 1) :
                  calls'[i].attempt = 1 /\ i <= Len(replies')

\* C19: within one request the completion calls are strictly sequential: at
\* most one is in flight at any time, a repair call starts only after the
\* response of its primary call was received, and the primary call of
\* attempt 2 starts only after the primary call of attempt 1 and, if
\* issued, the repair call of attempt 1 have resolved.
C19_Sequential ==
  /\ [](InFlight \in {0, 1})
  /\ [][StartsAfterEarlierSettled]_vars

\* aiParseResume waiting for the primary call of attempt 2 after the primary
\* and the repair call of attempt 1 were answered.
C19_Witness ==
  /\ kind = "aiParseResume"
  /\ pc = "primary"
  /\ Len(calls) = 3
  /\ calls[2].call = "repair"
  /\ calls[3].attempt = 2
  /\ Len(replies) = 2
  /\ InFlight = 1

\* C20: every repair call carries, after the words "Fix this to valid JSON
\* only", the content received for the primary call of the same attempt (the
\* call right before it), and has temperature 0; every primary call has a
\* temperature of 0.1 or 0.2 and the JSON response format.
C20_CallParameters ==
  \A i \in 1..Len(calls) :
    IF calls[i].call = "repair"
    THEN /\ i > 1
         /\ calls[i - 1].call = "primary"
         /\ calls[i - 1].attempt = calls[i].attempt
         /\ replies[i - 1] = Str(calls[i].user.text)
         /\ calls[i].user.says = "Fix this to valid JSON only"
         /\ calls[i].temperature = 0
    ELSE /\ calls[i].call = "primary"
         /\ calls[i].temperature \in {1, 2}
         /\ calls[i].json_object

\* Both attempts of aiParseResume were repaired, the two primary replies
\* differ from each other and from the resume text, and the second repair
\* carries the second reply.
C20_Witness ==
  /\ kind = "aiParseResume"
  /\ Len(calls) = 4
  /\ calls[4].call = "repair"
  /\ Len(replies) >= 3
  /\ replies[1] # replies[3]
  /\ replies[3] # Str(truncatedText)
  /\ calls[4].user.text = replies[3].s
  /\ calls[4].temperature = 0


\* What attempt 1 of aiParseResume settled on: the profile of its primary
\* reply, else the profile of its repair reply, Null when neither gave one,
\* NotRun while attempt 1 is still waiting.
Attempt1Profile ==
  IF Len(replies) >= 1 /\ GaveProfile(1)
    THEN repairAiResponse(replies[1], truncatedText)
  ELSE IF Len(replies) >= 2 /\ calls[2].call = "repair"
    THEN repairAiResponse(replies[2], truncatedText)
  ELSE NotRun

Attempt1Usable ==
  /\ kind = "aiParseResume"
  /\ Attempt1Profile \notin {NotRun, Null}
  /\ ~LacksCoreData(Attempt1Profile)

\* C21: when attempt 1 of aiParseResume, directly or through its repair,
\* yields a profile with a non-blank skill, an experience entry or a contact
\* name, e-mail or phone, aiParseResume returns exactly that profile and no
\* completion call of a second attempt is ever issued.
C21_NoSecondAttemptWhenUsable ==
  Attempt1Usable =>
    /\ pc = "done"
    /\ outcome = [returned |-> Attempt1Profile]
    /\ Len(calls) = Len(replies)
    /\ \A i \in 1..Len(calls) : calls[i].attempt = 1

\* Attempt 1 needed its repair, and the repaired profile, which has a skill
\* and no experience or contact data, was returned after two calls.
C21_Witness ==
  /\ Attempt1Usable
  /\ Len(calls) = 2
  /\ ~GaveProfile(1)
  /\ Len(Attempt1Profile.o.skills.a) > 0
  /\ Attempt1Profile.o.experience.a = <<>>
  /\ pc = "done"


\* The list fields of the profile that go through normalizeSkills.
ListFields == {"skills", "certifications", "languages", "links"}

\* The list coercion as stated: the entries of an array stringified and
\* trimmed, the pieces of a string between commas and newlines trimmed,
\* blanks dropped, order and duplicates kept; nothing for any other value.
Coerced(raw) ==
  IF raw.t = "array"
    THEN StrEach(DropEmpty([i \in 1..Len(raw.a) |-> Trim(String(raw.a[i]))]))
  ELSE IF raw.t = "string"
    THEN StrEach(DropEmpty([i \in 1..Len(SplitCommaNewline(raw.s)) |->
                              Trim(SplitCommaNewline(raw.s)[i])]))
  ELSE <<>>

\* No entry is blank or carries white space at either end.
CleanList(v) ==
  /\ v.t = "array"
  /\ \A i \in 1..Len(v.a) :
       /\ v.a[i].t = "string"
       /\ ~IsBlank(v.a[i].s)
       /\ Trim(v.a[i].s) = v.a[i].s

\* The lists of the profile p are the coercions of the fields of raw.
CoercionHolds(raw, p) ==
  LET safe == Or(raw, Obj(NoKeys))
      exp  == Get(safe, "experience")
  IN  /\ \A f \in ListFields :
           /\ p.o[f] = Arr(Coerced(Get(safe, f)))
           /\ CleanList(p.o[f])
      /\ exp.t = "array" =>
           /\ Len(p.o.experience.a) = Len(exp.a)
           /\ \A i \in 1..Len(exp.a) :
                /\ p.o.experience.a[i].o.responsibilities
                     = Arr(Coerced(Responsibilities(exp.a[i])))
                /\ CleanList(p.o.experience.a[i].o.responsibilities)

\* C23: for every raw value, skills, certifications, languages, links and
\* the responsibilities of every experience entry are the list coercion of
\* the input field: array entries stringified and trimmed, string pieces
\* split on comma or newline and trimmed, blanks dropped, order and
\* duplicates kept, the empty array for anything else; so no list holds a
\* blank or untrimmed string.
C23_ListCoercion ==
  nOnce # NotRun => (nOnce # Thrown /\ CoercionHolds(nRaw, nOnce))


\* The replies to the calls of attempt 2 that are JSON, in call order.
Attempt2Json ==
  {i \in 1..Len(replies) :
     calls[i].attempt = 2 /\ Answered(i) /\ JSONparse(replies[i].s) # Thrown}

Terminal == pc = "done" /\ outcome # NotRun

\* Attempt 2 gave JSON, from its primary call or else from its repair call:
\* aiParseResume returned that JSON normalised, empty or not.
Attempt2JsonReturned ==
  (kind = "aiParseResume" /\ pc = "done" /\ Attempt2Json # {}) =>
    LET i == CHOOSE j \in Attempt2Json : \A k \in Attempt2Json : j <= k
    IN  /\ "returned" \in DOMAIN outcome
        /\ outcome.returned = normalizeParsed(JSONparse(replies[i].s), truncatedText)

\* C22: aiParseResume never loops: with every completion call eventually
\* returning or throwing the request reaches a terminal outcome (a profile
\* returned or a failure raised), there is never a third attempt, and when
\* attempt 2, directly or through its repair, yields parseable JSON its
\* normalised profile is returned as success even if it is empty.
C22_NeverLoops ==
  /\ [](kind = "aiParseResume" => attempt <= 2)
  /\ [](kind = "aiParseResume" => \A i \in 1..Len(calls) : calls[i].attempt <= 2)
  /\ (kind = "aiParseResume") ~> Terminal
  /\ []Attempt2JsonReturned


\* The raw value carries a phone of its own, at the top level or in contact.
StructuredPhone(raw) ==
  LET safe == Or(raw, Obj(NoKeys))
  IN  \/ Truthy(Get(safe, "phone"))
      \/ Truthy(Get(Or(Get(safe, "contact"), Obj(NoKeys)), "phone"))

PhoneSeparators == SpaceChars \cup {"-", "(", ")"}

\* The stretches i..j of s that begin and end with a digit, hold digits and
\* separators only, and hold at least 8 digits.
PhoneStretches(s) ==
  {ij \in (1..Len(s)) \X (1..Len(s)) :
     /\ ij[1] <= ij[2]
     /\ s[ij[1]] \in DigitChars
     /\ s[ij[2]] \in DigitChars
     /\ \A k \in ij[1]..ij[2] : s[k] \in DigitChars \cup PhoneSeparators
     /\ Cardinality({k \in ij[1]..ij[2] : s[k] \in DigitChars}) >= 8}

\* The first stretch, taken as long as it goes, with the + before it if any.
ClaimedPhone(s) ==
  LET i == MinOf({ij[1] : ij \in PhoneStretches(s)})
      j == MaxOf({ij[2] : ij \in {x \in PhoneStretches(s) : x[1] = i}})
  IN  Str(SubSeq(s, IF i > 1 /\ s[i - 1] = "+" THEN i - 1 ELSE i, j))

\* C24: when the raw value supplies no structured phone, contact.phone is
\* non-null exactly when the text holds an optional + followed by at least
\* 8 digits, separators (spaces, hyphens, parentheses) allowed between
\* them, and is then the first such match.
C24_PhoneFallback ==
  (nOnce \notin {NotRun, Thrown} /\ ~StructuredPhone(nRaw)) =>
    /\ nOnce.o.contact.o.phone # Null <=> PhoneStretches(nText) # {}
    /\ nOnce.o.contact.o.phone # Null =>
         nOnce.o.contact.o.phone = ClaimedPhone(nText)


\* The fields of the profile that are arrays.
ArrayFields == ListFields \cup {"experience", "education"}

\* C25: for any raw input the profile normalizeParsed returns has skills,
\* experience, education, certifications, languages and links as arrays,
\* never absent; summary is a string, "" when the input has none; education
\* is the input's education when that is an array, and a bare degree string
\* given as education is kept as it is, not discarded.
C25_FieldTypes ==
  nOnce # NotRun =>
    LET given == Get(Or(nRaw, Obj(NoKeys)), "education")
        summary == Get(Or(nRaw, Obj(NoKeys)), "summary")
    IN  /\ nOnce # Thrown
        /\ \A f \in ArrayFields \ {"education"} :
             f \in DOMAIN nOnce.o /\ nOnce.o[f].t = "array"
        /\ nOnce.o.summary.t = "string"
        /\ summary = Undef => nOnce.o.summary = Str(<<>>)
        /\ "education" \in DOMAIN nOnce.o
        /\ given.t \in {"array", "string"} => nOnce.o.education = given
        /\ given.t \notin {"array", "string"} => nOnce.o.education = Arr(<<>>)


\* C26: for every text the profile heuristicParsed returns has the token
\* list of extractSkillsHeuristic for that text as skills, no experience,
\* the fixed marker string as summary, and as contact e-mail and phone the
\* first match of the e-mail and phone patterns in the text, null when the
\* text has none.
C26_HeuristicProfile ==
  (hProfile # NotRun /\ hSkills # NotRun) =>
    /\ hProfile # Thrown
    /\ hProfile.o.skills = hSkills
    /\ hProfile.o.experience = Arr(<<>>)
    /\ hProfile.o.summary = Str(HeuristicSummary)
    /\ hProfile.o.contact.o.email = EmailMatch(hText)
    /\ hProfile.o.contact.o.phone = PhoneMatch(hText)

\* Both functions ran on a text with tokens and an address: the profile
\* carries the tokens and the address found in the text.
C26_Witness ==
  /\ hProfile \notin {NotRun, Thrown}
  /\ hSkills # NotRun
  /\ Len(hProfile.o.skills.a) > 1
  /\ hProfile.o.contact.o.email # Null
  /\ hProfile.o.contact.o.email = EmailMatch(hText)


\* The status and the profile of a response.
StatusAndProfile(r) ==
  [status |-> r.status,
   parsed |-> IF r.status = 200 THEN r.body.parsed ELSE Null]

\* C27: the file-upload path of POST /api/parse-resume is an alias of POST
\* /api/tools/extract-skills: for the same uploaded file (or none), the same
\* AI configuration and the same AI responses both end with the same status
\* and the same parsed profile, blank extracted text and a missing AI client
\* included.
C27_AliasOfExtractSkills ==
  (kind = "parseResumeFile" /\ pc = "done") =>
    /\ Len(res) = 1
    /\ StatusAndProfile(res[1]) = ExtractSkillsAnswer(file, openai, resumeText, replies)


\* The calls of aiParseResume that were rejected.
Rejected(what) ==
  {i \in 1..Len(replies) : replies[i] = Thrown /\ calls[i].call = what}

\* C28: in aiParseResume a rejected primary completion call ends the request
\* at once with the error of the call (no repair, no further attempt, no
\* profile), while a rejected repair call is swallowed and handled as a
\* repair that gave nothing: after attempt 1 the protocol goes on to the
\* primary call of attempt 2, after attempt 2 it ends in the parse failure.
C28_AsymmetricFailure ==
  kind = "aiParseResume" =>
    /\ \A i \in Rejected("primary") :
         /\ Len(calls) = i
         /\ pc = "done"
         /\ outcome = [threw |-> ApiError]
    /\ \A i \in Rejected("repair") :
         IF calls[i].attempt = 1
         THEN /\ Len(calls) > i
              /\ calls[i + 1].call = "primary"
              /\ calls[i + 1].attempt = 2
         ELSE /\ Len(calls) = i
              /\ pc = "done"
              /\ outcome = [threw |-> AiParseFailed]

\* The repair call of attempt 1 was rejected, attempt 2 was made, and its
\* primary call was rejected: the caller got the error of that call.
C28_Witness ==
  /\ kind = "aiParseResume"
  /\ Rejected("repair") = {2}
  /\ Rejected("primary") = {3}
  /\ outcome = [threw |-> ApiError]


\* The profile a handler makes of its first reply, Null when it makes none.
FirstReplyProfile ==
  IF Answered(1) THEN repairAiResponse(replies[1], NormalizedAgainst) ELSE Null

\* C29: a request to a parse handler (POST /api/parse-resume with a JSON
\* body or with a file, POST /api/tools/extract-skills) issues at most one
\* primary completion call and at most one repair call, all of attempt 1,
\* and a first response that parses to a profile without skills, experience
\* and contact data is answered as the success result, with no other call.
C29_HandlersAskOnce ==
  kind \in HandlerKinds =>
    /\ Cardinality(Primaries) <= 1
    /\ Cardinality({i \in 1..Len(calls) : calls[i].call = "repair"}) <= 1
    /\ \A i \in 1..Len(calls) : calls[i].attempt = 1
    /\ (FirstReplyProfile # Null /\ LacksCoreData(FirstReplyProfile)) =>
         /\ pc = "done"
         /\ Len(calls) = 1
         /\ res = <<[status |-> 200, body |-> [parsed |-> FirstReplyProfile]]>>

\* A file handler answered 200 with the empty profile after its only call.
C29_Witness ==
  /\ kind \in FileHandlerKinds
  /\ pc = "done"
  /\ Len(calls) = 1
  /\ FirstReplyProfile # Null
  /\ LacksCoreData(FirstReplyProfile)
  /\ res[1].status = 200


ParseResumeKinds == {"parseResumeJson", "parseResumeFile"}

\* The handler has nothing left to run: it returned, or the promise it
\* awaits is never settled.
HandlerAtRest == pc \in {"done", "hung"}

\* C30: every request to POST /api/parse-resume whose external calls all
\* complete gets exactly one HTTP response on every path: no second
\* response is ever sent, a handler at rest has sent one (also when the
\* upload middleware reported an error and the wrapping promise stays
\* unsettled), and every request eventually gets its response.
C30_ExactlyOneResponse ==
  /\ [](kind \in ParseResumeKinds =>
          /\ Len(res) <= 1
          /\ HandlerAtRest <=> Len(res) = 1)
  /\ (kind \in ParseResumeKinds) ~> (Len(res) = 1)

\* The upload middleware reported an error: one 400 was sent and the handler
\* stays at its await.
C30_Witness ==
  /\ kind = "parseResumeFile"
  /\ pc = "hung"
  /\ Len(res) = 1
  /\ res[1].status = 400

=============================================================================
